---- MODULE Spec2Model ----
(***************************************************************************)
(* Samsung Health extractor: the combination engine and output pipeline of *)
(* process_data_combinations, in its two variants                          *)
(*   src/samsung_health_extractor.py  (polars, structured log)             *)
(*   src/reedit.py                    (pandas, prints)                     *)
(* together with the run-level steps of main / extract_data.               *)
(*                                                                         *)
(* Data abstraction.  A table is [cols, dtypes, rows]: column names, one    *)
(* dtype per column and the rows as sequences of cells aligned with cols.  *)
(* A cell is a record [t, v]:                                              *)
(*   null           missing value (None / NaN / NaT)                       *)
(*   int   v        Int64 value v (epoch timestamps count abstract ticks)  *)
(*   flt   v        Float64 value v / Scale (fixed point, two decimals)    *)
(*   dstr  v        text "YYYY-MM-DD" of day v                             *)
(*   tstr  v        text of the full timestamp at tick v                   *)
(*   xstr  v        any other text (number v names it)                     *)
(*   date  v        a date value, day v                                    *)
(*   dt    v        a datetime value, tick v                               *)
(* A day has TicksPerDay ticks.                                            *)
(***************************************************************************)
EXTENDS Integers, Sequences, FiniteSets, TLC

VARIABLES
    impl,                \* which variant runs: "extractor" or "reedit"
    env,                 \* the input directory: "ok", "missing", "notdir", "nodumps"
    unwritable,          \* output paths whose write raises (I/O error)
    pc,                  \* position of the run
    exit_status,         \* "running", "0" or "1"
    config_file,         \* data_combinations as written in data_combination.json
    combination_config,  \* the data_combinations mapping in memory, in file order
    ci,                  \* index of the combination being processed
    si,                  \* index of the next source of that combination
    combined_df,         \* the MergedTable of the current combination, or NoTable
    merge_key,           \* the combination's standardized key, or None
    outputs,             \* the output files: path -> table written there
    log,                 \* diagnostics emitted so far
    csv_paths,           \* the CSV files of the dump directory, in listing order
    cleaned_names,       \* the cleaned name of each file, once computed
    options,             \* ignore list, catalog filter switches, config file sections
    categories,          \* the CategoryTree (none before it is built)
    catalog_log          \* what the catalog logged for each file, in listing order

vars == <<impl, config_file, env, unwritable, pc, exit_status, combination_config, ci, si,
          combined_df, merge_key, outputs, log, csv_paths, cleaned_names, options,
          categories, catalog_log>>

(***************************************************************************)
(* Bounds of the model.                                                    *)
(***************************************************************************)
TicksPerDay == 2
MaxSources == 3

(***************************************************************************)
(* Cells.                                                                  *)
(***************************************************************************)
Scale == 100

Null == [t |-> "null", v |-> 0]
I64(n) == [t |-> "int", v |-> n]
F64(n) == [t |-> "flt", v |-> n]
DStr(d) == [t |-> "dstr", v |-> d]
TStr(n) == [t |-> "tstr", v |-> n]
XStr(k) == [t |-> "xstr", v |-> k]
Date(d) == [t |-> "date", v |-> d]
DT(n) == [t |-> "dt", v |-> n]

IsNull(c) == c.t = "null"

None == "<None>"
Absent == [t |-> "absent", v |-> 0]
NoTable == [cols |-> <<>>, dtypes |-> <<>>, rows |-> <<>>, none |-> TRUE]
Table(cols, dtypes, rows) == [cols |-> cols, dtypes |-> dtypes, rows |-> rows, none |-> FALSE]

(***************************************************************************)
(* Let(e, F) is F(e) with e evaluated once.                                *)
(***************************************************************************)
Let(e, F(_)) == CHOOSE r \in {F(v) : v \in {e}} : TRUE

(***************************************************************************)
(* Generic sequence helpers.                                               *)
(***************************************************************************)
Range(s) == {s[i] : i \in 1..Len(s)}

RECURSIVE SeqFilterIdx(_, _, _)
\* the indices i (ascending, from k) of s with keep[i]
SeqFilterIdx(keep, n, k) ==
    IF k > n THEN <<>>
    ELSE (IF keep[k] THEN <<k>> ELSE <<>>) \o SeqFilterIdx(keep, n, k + 1)

FilterSeq(s0, P(_)) ==
    Let(s0, LAMBDA s :
    Let([i \in 1..Len(s) |-> P(s[i])], LAMBDA keep :
    Let(SeqFilterIdx(keep, Len(s), 1), LAMBDA idx :
        [j \in 1..Len(idx) |-> s[idx[j]]])))

RECURSIVE FlattenFrom(_, _)
FlattenFrom(ss, k) == IF k > Len(ss) THEN <<>> ELSE ss[k] \o FlattenFrom(ss, k + 1)

\* the concatenation of a sequence of sequences
Flatten(ss0) == Let(ss0, LAMBDA ss : FlattenFrom(ss, 1))

NoDup(s) == \A i, j \in 1..Len(s) : s[i] = s[j] => i = j

Idx(s, x) == CHOOSE i \in 1..Len(s) : s[i] = x /\ \A j \in 1..(i - 1) : s[j] # x

(***************************************************************************)
(* Names are sequences of one-character strings.                           *)
(***************************************************************************)
Digits == {"0", "1", "2", "3", "4", "5", "6", "7", "8", "9"}

StartsWith(s, pat) ==
    /\ Len(s) >= Len(pat)
    /\ \A i \in 1..Len(pat) : s[i] = pat[i]

\* str.find(pat): 1-based position of the first occurrence, 0 when there is none
Find(s0, pat) ==
    Let(s0, LAMBDA s :
    Let({i \in 1..Len(s) : StartsWith(SubSeq(s, i, Len(s)), pat)}, LAMBDA hits :
        IF hits = {} THEN 0 ELSE CHOOSE i \in hits : \A j \in hits : i <= j))

RECURSIVE RemoveAll(_, _)
\* str.replace(pat, ""): every non-overlapping occurrence, left to right
RemoveAll(s0, pat) ==
    Let(s0, LAMBDA s :
    Let(Find(s, pat), LAMBDA k :
        IF k = 0 THEN s
        ELSE SubSeq(s, 1, k - 1) \o RemoveAll(SubSeq(s, k + Len(pat), Len(s)), pat)))

\* drop the trailing run of characters that belong to chars
RStrip(s0, chars) ==
    Let(s0, LAMBDA s :
    Let({i \in 1..Len(s) : s[i] \notin chars}, LAMBDA kept :
        IF kept = {} THEN <<>>
        ELSE SubSeq(s, 1, CHOOSE i \in kept : \A j \in kept : j <= i)))

DotCsv == <<".", "c", "s", "v">>
Health == <<"h", "e", "a", "l", "t", "h">>

clean_csv_name(name) ==
    Let(RemoveAll(name, DotCsv), LAMBDA name_without_ext :
    Let(Find(name_without_ext, Health), LAMBDA health_index :
    Let(IF health_index # 0
        THEN SubSeq(name_without_ext, health_index + 6, Len(name_without_ext))
        ELSE name_without_ext, LAMBDA after :
    Let(RStrip(after, Digits), LAMBDA cleaned_name :
        RStrip(cleaned_name, {".", "_"})))))

(***************************************************************************)
(* Table operations shared by the two data-frame libraries.                *)
(***************************************************************************)
HasCol(T, c) == c \in Range(T.cols)
ColIdx(T, c) == Idx(T.cols, c)
Column(T, c) == [i \in 1..Len(T.rows) |-> T.rows[i][ColIdx(T, c)]]
Dtype(T, c) == T.dtypes[ColIdx(T, c)]
Height(T) == Len(T.rows)

\* df.select(names) / df[names]: the named columns, in the order given
Select(T, names) ==
    Let([j \in 1..Len(names) |-> ColIdx(T, names[j])], LAMBDA ix :
        Table(names,
              [j \in 1..Len(names) |-> T.dtypes[ix[j]]],
              [i \in 1..Len(T.rows) |-> [j \in 1..Len(names) |-> T.rows[i][ix[j]]]]))

\* replace column c by dtype d and the cells f(old cell)
MapCol(T, c, d, f(_)) ==
    Let(ColIdx(T, c), LAMBDA k :
        Table(T.cols,
              [j \in 1..Len(T.cols) |-> IF j = k THEN d ELSE T.dtypes[j]],
              [i \in 1..Len(T.rows) |->
                  [j \in 1..Len(T.cols) |->
                      IF j = k THEN f(T.rows[i][j]) ELSE T.rows[i][j]]]))

\* df.with_columns(pl.col(src).alias(alias)): a copy of column src under the
\* name alias, replacing a column of that name or appended as the last column
WithAlias(T, src, alias) ==
    Let(ColIdx(T, src), LAMBDA k :
        IF HasCol(T, alias)
        THEN Let(ColIdx(T, alias), LAMBDA a :
                 Table(T.cols,
                       [j \in 1..Len(T.cols) |-> IF j = a THEN T.dtypes[k] ELSE T.dtypes[j]],
                       [i \in 1..Len(T.rows) |->
                           [j \in 1..Len(T.cols) |->
                               IF j = a THEN T.rows[i][k] ELSE T.rows[i][j]]]))
        ELSE Table(Append(T.cols, alias), Append(T.dtypes, T.dtypes[k]),
                   [i \in 1..Len(T.rows) |-> Append(T.rows[i], T.rows[i][k])]))

\* the column names after renaming with the mapping m (old -> new), all at once
Renamed(T, m) ==
    [j \in 1..Len(T.cols) |-> IF T.cols[j] \in DOMAIN m THEN m[T.cols[j]] ELSE T.cols[j]]

Rename(T, m) == Table(Renamed(T, m), T.dtypes, T.rows)

\* polars df.rename(m) raises when a key of m is no column, or when two
\* columns end up with one name; pandas df.rename(columns=m) raises neither
RenameRaises(lib, T, m) ==
    /\ lib = "polars"
    /\ \/ \E k \in DOMAIN m : ~HasCol(T, k)
       \/ ~NoDup(Renamed(T, m))

(***************************************************************************)
(* Ordering of cells and stable sorting of rows.                           *)
(***************************************************************************)
CellLess(a, b) == a.v < b.v

\* does row r go before row e when sorting on column index k?
\* polars puts nulls first whatever the direction, pandas puts them last
RowBefore(lib, r, e, k, descending) ==
    IF IsNull(r[k]) \/ IsNull(e[k])
    THEN IF lib = "polars" THEN IsNull(r[k]) /\ ~IsNull(e[k])
         ELSE ~IsNull(r[k]) /\ IsNull(e[k])
    ELSE IF descending THEN CellLess(e[k], r[k]) ELSE CellLess(r[k], e[k])

RECURSIVE InsertRow(_, _, _, _, _)
\* insert r into the sorted sequence, after every row it does not go before
InsertRow(lib, r, sorted0, k, descending) ==
    Let(sorted0, LAMBDA sorted :
        IF sorted = <<>> THEN <<r>>
        ELSE IF RowBefore(lib, r, sorted[Len(sorted)], k, descending)
        THEN Append(InsertRow(lib, r, SubSeq(sorted, 1, Len(sorted) - 1), k, descending),
                    sorted[Len(sorted)])
        ELSE Append(sorted, r))

RECURSIVE SortRows(_, _, _, _)
\* a stable sort of the rows on column index k
SortRows(lib, rows0, k, descending) ==
    Let(rows0, LAMBDA rows :
        IF rows = <<>> THEN <<>>
        ELSE InsertRow(lib, rows[Len(rows)],
                       SortRows(lib, SubSeq(rows, 1, Len(rows) - 1), k, descending),
                       k, descending))

\* df.sort(c, descending=...) / df.sort_values(by=c, ascending=...)
SortBy(lib, T0, c, descending) ==
    Let(T0, LAMBDA T :
    Let(ColIdx(T, c), LAMBDA k :
        Table(T.cols, T.dtypes, SortRows(lib, T.rows, k, descending))))

(***************************************************************************)
(* Merge-key conversion.                                                   *)
(***************************************************************************)
IsNumericDtype(d) == d \in {"int", "flt"}

\* epoch milliseconds -> datetime (pl.from_epoch / pd.to_datetime(unit='ms'))
FromEpoch(c) ==
    IF c.t = "int" THEN DT(c.v)
    ELSE IF c.t = "flt" THEN DT(c.v \div Scale)
    ELSE Null

\* text -> datetime; text that is no timestamp gives null
ParseDatetime(c) ==
    IF c.t = "dstr" THEN DT(c.v * TicksPerDay)
    ELSE IF c.t = "tstr" THEN DT(c.v)
    ELSE IF c.t = "date" THEN DT(c.v * TicksPerDay)
    ELSE IF c.t = "dt" THEN c
    ELSE Null

\* datetime -> date (.dt.date)
ToDate(c) == IF c.t = "dt" THEN Date(c.v \div TicksPerDay) ELSE Null

\* pl.col(key).str.to_datetime() is strict: it raises on a column that is not
\* text and on any text that is no timestamp
StrToDatetimeRaises(T, key) ==
    \/ Dtype(T, key) # "str"
    \/ \E i \in 1..Len(T.rows) : Column(T, key)[i].t = "xstr"

\* src/samsung_health_extractor.py: the try block that converts column key of
\* T; on an exception the table is left as it was
ConvertKeyPolars(T, key, use_datetime) ==
    IF IsNumericDtype(Dtype(T, key))
    THEN IF use_datetime
         THEN MapCol(T, key, "dt", FromEpoch)
         ELSE MapCol(T, key, "date", LAMBDA c : ToDate(FromEpoch(c)))
    ELSE IF StrToDatetimeRaises(T, key) THEN T
    ELSE IF use_datetime
         THEN MapCol(T, key, "dt", ParseDatetime)
         ELSE MapCol(T, key, "date", LAMBDA c : ToDate(ParseDatetime(c)))

\* src/reedit.py: pd.to_datetime(..., unit='ms') for numbers, otherwise
\* pd.to_datetime(..., errors='coerce'); then .dt.date
ConvertKeyPandas(T, key) ==
    IF IsNumericDtype(Dtype(T, key))
    THEN MapCol(T, key, "date", LAMBDA c : ToDate(FromEpoch(c)))
    ELSE MapCol(T, key, "date", LAMBDA c : ToDate(ParseDatetime(c)))

(***************************************************************************)
(* Outer joins.                                                            *)
(***************************************************************************)
NonKeyIdx(T, key) ==
    Let(ColIdx(T, key), LAMBDA k :
        [j \in 1..(Len(T.cols) - 1) |-> IF j < k THEN j ELSE j + 1])

\* the entries of r (a row, or the names or dtypes) outside the key column
NonKeyCells(T, key, r) ==
    Let(NonKeyIdx(T, key), LAMBDA ix : [j \in 1..Len(ix) |-> r[ix[j]]])

Nulls(n) == [j \in 1..n |-> Null]

\* do the keys of a left row and a right row match?  polars never matches a
\* null key (join_nulls=False); pandas merge matches NaN with NaN
KeysMatch(lib, a, b) == a = b /\ (lib = "pandas" \/ ~IsNull(a))

\* a left row with its matches in R, or with nulls when it has none
JoinLeftRow(lib, R, key, rk, l, lkey) ==
    Let(FilterSeq(R.rows, LAMBDA r : KeysMatch(lib, lkey, r[rk])), LAMBDA ms :
        IF ms = <<>> THEN <<l \o Nulls(Len(R.cols) - 1)>>
        ELSE [j \in 1..Len(ms) |-> l \o NonKeyCells(R, key, ms[j])])

\* rows of a left join (how="left"): the right rows no left row matched are lost
JoinRowsLeft(lib, L, R, key) ==
    Let(<<ColIdx(L, key), ColIdx(R, key)>>, LAMBDA ix :
        Flatten([i \in 1..Len(L.rows) |->
                    JoinLeftRow(lib, R, key, ix[2], L.rows[i], L.rows[i][ix[1]])]))

\* rows of the full outer join: every left row with its matches (or nulls),
\* then the right rows no left row matched; one coalesced key column, which
\* stands where the left key stood
JoinRows(lib, L, R, key) ==
    Let(<<ColIdx(L, key), ColIdx(R, key)>>, LAMBDA ix :
    Let(Flatten([i \in 1..Len(L.rows) |->
                    JoinLeftRow(lib, R, key, ix[2], L.rows[i], L.rows[i][ix[1]])]),
        LAMBDA leftPart :
    Let(FilterSeq(R.rows,
                  LAMBDA r : ~\E i \in 1..Len(L.rows) :
                                 KeysMatch(lib, L.rows[i][ix[1]], r[ix[2]])),
        LAMBDA unmatched :
        leftPart \o
        [j \in 1..Len(unmatched) |->
            [c \in 1..Len(L.cols) |-> IF c = ix[1] THEN unmatched[j][ix[2]] ELSE Null]
            \o NonKeyCells(R, key, unmatched[j])])))

\* column names of the join.  polars keeps the left names and suffixes a
\* clashing right name with _right; pandas suffixes both with _x and _y
JoinCols(lib, L, R, key) ==
    Let(NonKeyCells(R, key, R.cols), LAMBDA rn :
        IF lib = "polars"
        THEN L.cols \o [j \in 1..Len(rn) |->
                           IF rn[j] \in Range(L.cols) THEN rn[j] \o "_right" ELSE rn[j]]
        ELSE [j \in 1..Len(L.cols) |->
                 IF L.cols[j] # key /\ L.cols[j] \in Range(rn)
                 THEN L.cols[j] \o "_x" ELSE L.cols[j]]
             \o [j \in 1..Len(rn) |->
                    IF rn[j] \in Range(L.cols) THEN rn[j] \o "_y" ELSE rn[j]])

\* combined_df.join(df, on=key, how="full", coalesce=True) raises when either
\* side lacks the key, when the key dtypes differ, or on a duplicate output
\* name; pd.merge(combined_df, df, on=key, how='outer') raises when either
\* side lacks the key
JoinRaises(lib, L, R, key) ==
    \/ ~HasCol(L, key)
    \/ ~HasCol(R, key)
    \/ /\ lib = "polars"
       /\ \/ Dtype(L, key) # Dtype(R, key)
          \/ ~NoDup(JoinCols(lib, L, R, key))

\* the full outer join; pandas returns it sorted on the key
OuterJoin(lib, L, R, key) ==
    Let(Table(JoinCols(lib, L, R, key),
              L.dtypes \o NonKeyCells(R, key, R.dtypes),
              JoinRows(lib, L, R, key)), LAMBDA joined :
        IF lib = "pandas" THEN SortBy(lib, joined, key, FALSE) ELSE joined)

(***************************************************************************)
(* Dictionaries are functions; d.get(k, default) is Get.                   *)
(***************************************************************************)
Get(d, k, default) == IF k \in DOMAIN d THEN d[k] ELSE default

EmptyDict == <<>>

\* Python truth value of a configured scalar: 0, 0.0 and "" are false
EmptyStr == XStr(0)
Truthy(c) == ~(c.t \in {"absent", "null"} \/ (c.t \in {"int", "flt", "xstr"} /\ c.v = 0))

(***************************************************************************)
(* Loading and preparing one source: the body of the inner try block up    *)
(* to "loaded_data".  The result is [kind, df, merge_key]:                 *)
(*   kind "no_columns"  none of the requested columns exists               *)
(*   kind "error"       an exception reached the except clause             *)
(*   kind "ok"          df is the prepared table                           *)
(* merge_key is the combination key after the step (set at its start).     *)
(***************************************************************************)
SourceMergeKey(source) == Get(source, "merge_key", "day_time")
MergeKeyRename(source) == Get(source, "merge_key_rename", SourceMergeKey(source))

\* a merge key that every source sets anew
NextMergeKeyOverwritten(source, mk) == MergeKeyRename(source)

\* "Set merge key from first source": the first source whose file was read
NextMergeKey(source, mk) == IF mk = None THEN MergeKeyRename(source) ELSE mk

ColumnsWithKey(source, df) ==
    LET cti == Get(source, "columns_to_include", <<>>)
        smk == SourceMergeKey(source)
    IN IF smk \notin Range(cti) /\ HasCol(df, smk) THEN Append(cti, smk) ELSE cti

AvailableColumns(source, df) ==
    FilterSeq(ColumnsWithKey(source, df), LAMBDA c : HasCol(df, c))

Restrict(m, keys) == [k \in (DOMAIN m) \cap keys |-> m[k]]

Failed(kind, mk) == [kind |-> kind, df |-> NoTable, merge_key |-> mk]
Prepared(df, mk) == [kind |-> "ok", df |-> df, merge_key |-> mk]

\* lines 475-509: the selection of the requested columns
SelectRequested(source, df0) ==
    IF ColumnsWithKey(source, df0) # <<>>
    THEN Select(df0, AvailableColumns(source, df0))
    ELSE df0

NoRequestedColumns(source, df0) ==
    ColumnsWithKey(source, df0) # <<>> /\ AvailableColumns(source, df0) = <<>>

RenameColumns(source) == Get(source, "rename_columns", EmptyDict)

\* "If the merge key is also in rename_columns, duplicate it first"
DuplicatesKey(source) ==
    DOMAIN RenameColumns(source) # {} /\ SourceMergeKey(source) \in DOMAIN RenameColumns(source)

\* the renames left once the original merge key is filtered out
FilteredRenames(source) ==
    Restrict(RenameColumns(source), (DOMAIN RenameColumns(source)) \ {SourceMergeKey(source)})

\* src/samsung_health_extractor.py lines 467-587
PrepareExtractor(source, df0, mk0) ==
    Let(NextMergeKey(source, mk0), LAMBDA mk :
    Let(SourceMergeKey(source), LAMBDA smk :
    Let(MergeKeyRename(source), LAMBDA mkr :
    IF NoRequestedColumns(source, df0) THEN Failed("no_columns", mk)
    ELSE
    Let(SelectRequested(source, df0), LAMBDA df1 :
    IF DuplicatesKey(source) /\ ~HasCol(df1, smk) THEN Failed("error", mk)
    ELSE
    Let(IF DuplicatesKey(source) THEN WithAlias(df1, smk, RenameColumns(source)[smk]) ELSE df1,
        LAMBDA df2 :
    IF HasCol(df2, smk) /\ mkr # smk /\ RenameRaises("polars", df2, (smk :> mkr))
    THEN Failed("error", mk)
    ELSE
    Let(IF HasCol(df2, smk) /\ mkr # smk THEN Rename(df2, (smk :> mkr)) ELSE df2,
        LAMBDA df3 :
    Let(FilteredRenames(source), LAMBDA filtered :
    IF DOMAIN filtered # {} /\ RenameRaises("polars", df3, filtered) THEN Failed("error", mk)
    ELSE
    Let(IF DOMAIN filtered # {} THEN Rename(df3, filtered) ELSE df3, LAMBDA df4 :
        Prepared(IF HasCol(df4, mk) THEN ConvertKeyPolars(df4, mk, mkr = "datetime") ELSE df4,
                 mk)))))))))

\* src/reedit.py lines 330-377
PrepareReedit(source, df0, mk0) ==
    Let(NextMergeKey(source, mk0), LAMBDA mk :
    Let(SourceMergeKey(source), LAMBDA smk :
    Let(MergeKeyRename(source), LAMBDA mkr :
    IF NoRequestedColumns(source, df0) THEN Failed("no_columns", mk)
    ELSE
    Let(SelectRequested(source, df0), LAMBDA df1 :
    Let(IF HasCol(df1, smk) /\ mkr # smk THEN Rename(df1, (smk :> mkr)) ELSE df1,
        LAMBDA df2 :
    Let(IF DOMAIN RenameColumns(source) # {} THEN Rename(df2, RenameColumns(source)) ELSE df2,
        LAMBDA df3 :
        Prepared(IF HasCol(df3, mk) THEN ConvertKeyPandas(df3, mk) ELSE df3, mk)))))))

Lib(variant) == IF variant = "extractor" THEN "polars" ELSE "pandas"

Prepare(variant, source, df0, mk0) ==
    IF variant = "extractor" THEN PrepareExtractor(source, df0, mk0)
    ELSE PrepareReedit(source, df0, mk0)

\* "Convert existing merge key ... for consistent merging": the accumulated
\* table just before the join
Renormalize(variant, combined, mk) ==
    IF ~HasCol(combined, mk) THEN combined
    ELSE IF variant = "extractor" THEN ConvertKeyPolars(combined, mk, mk = "datetime")
    ELSE ConvertKeyPandas(combined, mk)

(***************************************************************************)
(* Output pipeline pieces.                                                 *)
(***************************************************************************)
\* cast to text: a date prints as YYYY-MM-DD, a datetime as a full timestamp
CastString(c) ==
    IF c.t = "date" THEN DStr(c.v)
    ELSE IF c.t = "dt" THEN TStr(c.v)
    ELSE IF c.t \in {"int", "flt"} THEN XStr(c.v)
    ELSE c

\* .dt.date().cast(pl.String) and .dt.strftime('%Y-%m-%d')
DateString(c) == IF c.t = "dt" THEN DStr(c.v \div TicksPerDay) ELSE Null

\* polars DataFrame.fill_null(value) fills only the columns whose dtype suits
\* the value: a number fills the numeric columns, text fills the text columns
FillSuits(dtype, value) ==
    \/ value.t \in {"int", "flt"} /\ dtype \in {"int", "flt"}
    \/ value.t \in {"dstr", "tstr", "xstr"} /\ dtype = "str"

FillCellPolars(dtype, value) ==
    IF dtype = "flt" /\ value.t = "int" THEN F64(value.v * Scale) ELSE value

fill_null(T, value) ==
    Table(T.cols, T.dtypes,
          [i \in 1..Len(T.rows) |->
              [j \in 1..Len(T.cols) |->
                  IF IsNull(T.rows[i][j]) /\ FillSuits(T.dtypes[j], value)
                  THEN FillCellPolars(T.dtypes[j], value)
                  ELSE T.rows[i][j]]])

\* pandas DataFrame.fillna(value) fills every missing cell
fillna(T, value) ==
    Table(T.cols, T.dtypes,
          [i \in 1..Len(T.rows) |->
              [j \in 1..Len(T.cols) |->
                  IF IsNull(T.rows[i][j]) THEN value ELSE T.rows[i][j]]])

\* drop the rows whose cells are all null
DropAllNullRows(T) ==
    Table(T.cols, T.dtypes,
          FilterSeq(T.rows, LAMBDA r : \E j \in 1..Len(r) : ~IsNull(r[j])))

\* a numeric cell in hundredths
Hundredths(c) == IF c.t = "int" THEN c.v * Scale ELSE c.v

\* n / d rounded to the nearest integer, halves away from zero
RoundDiv(n, d) ==
    IF n >= 0 THEN (2 * n + d) \div (2 * d) ELSE -((2 * (-n) + d) \div (2 * d))

\* the sentinel -1.0 becomes null, nulls between two values are linearly
\* interpolated along the rows, and the column is rounded to two decimals
\* is the cell missing once the sentinel -1.0 is replaced by null?
\* the sentinel left as a value: only nulls are missing
MissingOnlyNull(c) == IsNull(c)

Missing(c) == IsNull(c) \/ Hundredths(c) = -Scale

\* the value on the line through (p, cells[p]) and (q, cells[q]) at row i
Between(cells, p, q, i) ==
    F64(RoundDiv(Hundredths(cells[p]) * (q - p)
                 + (Hundredths(cells[q]) - Hundredths(cells[p])) * (i - p),
                 q - p))

InterpolateCell(cells, i) ==
    IF ~Missing(cells[i]) THEN F64(Hundredths(cells[i]))
    ELSE Let({p \in 1..(i - 1) : ~Missing(cells[p])}, LAMBDA before :
         Let({q \in (i + 1)..Len(cells) : ~Missing(cells[q])}, LAMBDA after :
             IF before = {} \/ after = {} THEN Null
             ELSE Between(cells,
                          CHOOSE p \in before : \A x \in before : x <= p,
                          CHOOSE q \in after : \A x \in after : q <= x,
                          i)))

InterpolateCells(cells0) ==
    Let(cells0, LAMBDA cells : [i \in 1..Len(cells) |-> InterpolateCell(cells, i)])

\* the try block of "Interpolate temperature": comparing a text column with
\* -1.0 raises, and the table is then left as it was
InterpolateTemperature(T) ==
    IF ~IsNumericDtype(Dtype(T, "temperature")) THEN T
    ELSE Let(ColIdx(T, "temperature"), LAMBDA k :
         Let(InterpolateCells(Column(T, "temperature")), LAMBDA cells :
             Table(T.cols,
                   [j \in 1..Len(T.cols) |-> IF j = k THEN "flt" ELSE T.dtypes[j]],
                   [i \in 1..Len(T.rows) |->
                       [j \in 1..Len(T.cols) |->
                           IF j = k THEN cells[i] ELSE T.rows[i][j]]])))

\* "Convert sexual_activity to boolean marker (1 if exists, empty if not)"
FlattenMarker(T) ==
    MapCol(T, "sexual_activity", "int", LAMBDA c : IF IsNull(c) THEN Null ELSE I64(1))

\* a projection that keeps the order of the table, not that of final_columns
SelectFinalTableOrder(T, final_columns) ==
    Let(FilterSeq(T.cols, LAMBDA c : c \in Range(final_columns)), LAMBDA available :
        IF final_columns # <<>> /\ available # <<>> THEN Select(T, available) ELSE T)

\* final_columns: the requested columns that exist, or every column when the
\* list is empty or none of them exists
SelectFinal(T, final_columns) ==
    Let(FilterSeq(final_columns, LAMBDA c : HasCol(T, c)), LAMBDA available :
        IF final_columns # <<>> /\ available # <<>> THEN Select(T, available) ELSE T)

FillValue(oc) == Get(Get(oc, "data_processing", EmptyDict), "fill_missing_values", Absent)
WantInterpolate(oc) ==
    Get(Get(oc, "data_processing", EmptyDict), "interpolate_temperature", FALSE)

\* "Convert merge key back to datetime for sorting if needed"
WidenKey(T, mk) ==
    IF mk # None /\ HasCol(T, mk) /\ Dtype(T, mk) = "date"
    THEN MapCol(T, mk, "dt", ParseDatetime)
    ELSE T

\* a sort that is ascending whatever sort_ascending says
SortExtractorAscending(T, mk, oc) ==
    Let(Get(oc, "primary_sort", mk), LAMBDA sort_by :
        IF sort_by # None /\ sort_by # "" /\ HasCol(T, sort_by)
        THEN SortBy("polars", T, sort_by, FALSE)
        ELSE T)

\* "Sort the data" of src/samsung_health_extractor.py
SortExtractor(T, mk, oc) ==
    Let(Get(oc, "primary_sort", mk), LAMBDA sort_by :
        IF sort_by # None /\ sort_by # "" /\ HasCol(T, sort_by)
        THEN SortBy("polars", T, sort_by, ~Get(oc, "sort_ascending", TRUE))
        ELSE T)

\* "Convert merge key back to string for CSV output"
KeyToString(T, mk) ==
    IF mk # None /\ HasCol(T, mk)
    THEN IF Dtype(T, mk) = "dt" /\ mk # "datetime"
         THEN MapCol(T, mk, "str", DateString)
         ELSE MapCol(T, mk, "str", CastString)
    ELSE T

\* "Apply data processing options": if data_processing.get("fill_missing_values")
FillExtractor(T, oc) == IF Truthy(FillValue(oc)) THEN fill_null(T, FillValue(oc)) ELSE T

\* src/samsung_health_extractor.py lines 667-712: the table after the sort,
\* with its key turned into text
SortedExtractor(T0, mk, oc) ==
    Let(WidenKey(T0, mk), LAMBDA t1 :
    Let(SortExtractor(t1, mk, oc), LAMBDA t2 :
        KeyToString(t2, mk)))

\* src/samsung_health_extractor.py lines 667-732: the table that reaches
\* "Interpolate temperature if requested"
FilledExtractor(T0, mk, oc) ==
    Let(SortedExtractor(T0, mk, oc), LAMBDA t3 :
    Let(SelectFinal(t3, Get(oc, "final_columns", <<>>)), LAMBDA t4 :
        FillExtractor(t4, oc)))

\* lines 735-755: the interpolation, when it is requested and can be done
InterpolatedExtractor(T5, oc) ==
    IF WantInterpolate(oc) /\ HasCol(T5, "temperature")
    THEN InterpolateTemperature(T5) ELSE T5

\* src/samsung_health_extractor.py lines 667-764: the table that reaches
\* "Remove completely empty rows"
MarkedExtractor(T0, mk, oc) ==
    Let(FilledExtractor(T0, mk, oc), LAMBDA t5 :
    Let(InterpolatedExtractor(t5, oc), LAMBDA t6 :
        IF HasCol(t6, "sexual_activity") THEN FlattenMarker(t6) ELSE t6))

\* src/samsung_health_extractor.py lines 667-767: the table handed to write_csv
PipelineExtractor(T0, mk, oc) == DropAllNullRows(MarkedExtractor(T0, mk, oc))

\* pd.to_datetime(combined_df[merge_key]) raises on text that is no timestamp;
\* the except clause then leaves the column as it was
ToDatetimeRaises(T, key) == \E i \in 1..Len(T.rows) : Column(T, key)[i].t = "xstr"

\* numbers are nanoseconds since the epoch, far less than one tick here
ToDatetimePandas(c) == IF c.t \in {"int", "flt"} THEN DT(0) ELSE ParseDatetime(c)

\* src/reedit.py lines 413-451, up to strftime: the key column must be a
\* datetime column there, or .dt raises
StrftimeRaises(T0, mk) ==
    /\ HasCol(T0, mk)
    /\ ToDatetimeRaises(T0, mk)

\* "Sort the data" of src/reedit.py
SortReedit(T, mk, oc) ==
    Let(Get(oc, "primary_sort", mk), LAMBDA sort_by :
        IF HasCol(T, sort_by)
        THEN SortBy("pandas", T, sort_by, ~Get(oc, "sort_ascending", TRUE))
        ELSE T)

FillReedit(T, oc) == IF Truthy(FillValue(oc)) THEN fillna(T, FillValue(oc)) ELSE T

\* src/reedit.py lines 413-451: the table handed to to_csv
PipelineReedit(T0, mk, oc) ==
    Let(IF HasCol(T0, mk) /\ ~ToDatetimeRaises(T0, mk)
        THEN MapCol(T0, mk, "dt", ToDatetimePandas) ELSE T0, LAMBDA t1 :
    Let(SortReedit(t1, mk, oc), LAMBDA t2 :
    Let(IF HasCol(t2, mk) THEN MapCol(t2, mk, "str", DateString) ELSE t2, LAMBDA t3 :
    Let(SelectFinal(t3, Get(oc, "final_columns", <<>>)), LAMBDA t4 :
    Let(FillReedit(t4, oc), LAMBDA t5 :
        DropAllNullRows(t5))))))

\* combined_df.is_empty() / combined_df.empty
IsEmpty(variant, T) ==
    IF variant = "extractor" THEN Height(T) = 0
    ELSE Height(T) = 0 \/ Len(T.cols) = 0

(***************************************************************************)
(* The dump directory: the CSV files in listing order.  Each file has its  *)
(* raw name and what reading it (skipping the metadata row) gives: a table *)
(* or an exception.                                                        *)
(***************************************************************************)
Prefix == <<"c", "o", "m", ".", "s", "h", "e", "a", "l", "t", "h", ".">>
Csv(stem) == Prefix \o stem \o <<".", "2", "0", "2", "3", ".", "c", "s", "v">>

SleepTable ==
    Table(<<"day_time", "sleep_score", "sexual_activity">>, <<"int", "int", "int">>,
          << <<I64(1), I64(80), Null>>,
             <<I64(2), I64(70), I64(3)>> >>)

TempTable ==
    Table(<<"start_time", "temperature">>, <<"str", "flt">>,
          << <<TStr(2), F64(2000)>>,
             <<TStr(4), F64(-100)>>,
             <<TStr(6), F64(-100)>>,
             <<TStr(8), F64(2300)>> >>)

HrTable ==
    Table(<<"heart_rate">>, <<"int">>, << <<I64(60)>>, <<I64(65)>> >>)

StepsTable ==
    Table(<<"day_time", "count">>, <<"str", "int">>,
          << <<DStr(0), I64(10)>>,
             <<XStr(7), I64(20)>>,
             <<Null, Null>> >>)

DumpFiles ==
    << [name |-> Csv(<<"s", "l", "e", "e", "p">>), load |-> "ok", table |-> SleepTable],
       [name |-> Csv(<<"t", "e", "m", "p">>), load |-> "ok", table |-> TempTable],
       [name |-> Csv(<<"b", "r", "o", "k", "e", "n">>), load |-> "error", table |-> NoTable],
       [name |-> Csv(<<"h", "r">>), load |-> "ok", table |-> HrTable],
       [name |-> Csv(<<"s", "t", "e", "p", "s">>), load |-> "ok", table |-> StepsTable] >>

\* "com.samsung.health.sleep.20230101.csv"
RawSleep2023 ==
    <<"c", "o", "m", ".", "s", "a", "m", "s", "u", "n", "g", ".", "h", "e", "a", "l",
      "t", "h", ".", "s", "l", "e", "e", "p", ".", "2", "0", "2", "3", "0", "1", "0",
      "1", ".", "c", "s", "v">>

\* "com.samsung.health.sleep.20240101.csv"
RawSleep2024 ==
    <<"c", "o", "m", ".", "s", "a", "m", "s", "u", "n", "g", ".", "h", "e", "a", "l",
      "t", "h", ".", "s", "l", "e", "e", "p", ".", "2", "0", "2", "4", "0", "1", "0",
      "1", ".", "c", "s", "v">>

\* "com.samsung.health.exercise20230101123045.csv"
RawExercise ==
    <<"c", "o", "m", ".", "s", "a", "m", "s", "u", "n", "g", ".", "h", "e", "a", "l",
      "t", "h", ".", "e", "x", "e", "r", "c", "i", "s", "e", "2", "0", "2", "3", "0",
      "1", "0", "1", "1", "2", "3", "0", "4", "5", ".", "c", "s", "v">>

\* "com.samsung.shealth.tracker.heart_rate.2023.csv"
RawHeartRate2023 ==
    <<"c", "o", "m", ".", "s", "a", "m", "s", "u", "n", "g", ".", "s", "h", "e", "a",
      "l", "t", "h", ".", "t", "r", "a", "c", "k", "e", "r", ".", "h", "e", "a", "r",
      "t", "_", "r", "a", "t", "e", ".", "2", "0", "2", "3", ".", "c", "s", "v">>

\* "com.samsung.shealth.tracker.heart_rate.2024.csv"
RawHeartRate2024 ==
    <<"c", "o", "m", ".", "s", "a", "m", "s", "u", "n", "g", ".", "s", "h", "e", "a",
      "l", "t", "h", ".", "t", "r", "a", "c", "k", "e", "r", ".", "h", "e", "a", "r",
      "t", "_", "r", "a", "t", "e", ".", "2", "0", "2", "4", ".", "c", "s", "v">>

\* "steps.csv"
RawSteps ==
    <<"s", "t", "e", "p", "s", ".", "c", "s", "v">>

\* "notes_1.csv"
RawNotes ==
    <<"n", "o", "t", "e", "s", "_", "1", ".", "c", "s", "v">>

NHeartRate == <<".", "t", "r", "a", "c", "k", "e", "r", ".",
                "h", "e", "a", "r", "t", "_", "r", "a", "t", "e">>

\* a table of n rows with a value followed by k rows that are entirely null
DataTable(n, k) ==
    Table(<<"value", "comment">>, <<"int", "str">>,
          [i \in 1..(n + k) |-> IF i <= n THEN <<I64(i), Null>> ELSE <<Null, Null>>])

DataFile(name, n, k) == [name |-> name, load |-> "ok", table |-> DataTable(n, k)]

CatalogFiles ==
    <<DataFile(RawSleep2023, 15, 0),
      DataFile(RawSleep2024, 11, 0),
      DataFile(RawExercise, 5, 0),
      DataFile(RawHeartRate2023, 10, 2),
      DataFile(RawHeartRate2024, 11, 1),
      [name |-> RawSteps, load |-> "error", table |-> NoTable],
      DataFile(RawNotes, 0, 12)>>

\* the files on disk; a path is the place of its file there
Disk == DumpFiles \o CatalogFiles

\* file_path.name
PathName(path) == Disk[path].name

\* what reading the file at a path gives
ReadCsv(path) == Disk[path]

\* the path of the file with a name
PathOf(name) == CHOOSE path \in DOMAIN Disk : Disk[path].name = name

\* the listing of the standard dump, and the paths of the other files
DumpPaths == [i \in 1..Len(DumpFiles) |-> i]
CatalogPaths == {Len(DumpFiles) + k : k \in 1..Len(CatalogFiles)}

\* all_cleaned_names[csv_path.name] = clean_csv_name(csv_path.name)
all_cleaned_names == [path \in DOMAIN Disk |-> clean_csv_name(PathName(path))]

\* "Find the CSV file path": the first file whose cleaned name is csv_name
FindCsv(csv_name) ==
    Let({i \in DOMAIN cleaned_names : cleaned_names[i] = csv_name},
        LAMBDA hits : IF hits = {} THEN 0 ELSE CHOOSE i \in hits : \A j \in hits : i <= j)

(***************************************************************************)
(* The catalog of the dump: which files have data, which are filtered out, *)
(* and the tree of categories of those that are left.                      *)
(***************************************************************************)
\* min_rows: int = 10
MinRows == 10

\* "enough rows" once the limit itself counts as enough
TooFewRowsStrict(n, min_rows) == n < min_rows

\* len(df_clean) <= min_rows
TooFewRows(n, min_rows) == n <= min_rows

AllNullRow(row) == \A j \in 1..Len(row) : IsNull(row[j])

\* the closing loop over the columns: a column with a value (src/reedit.py
\* counts every text column, whose nulls read 'nan')
AnyColumnHasData(variant, cols, dtypes, rows) ==
    \E j \in 1..Len(cols) :
        \/ variant = "reedit" /\ dtypes[j] = "str"
        \/ \E i \in 1..Len(rows) : ~IsNull(rows[i][j])

\* csv_has_data(file_path, min_rows): the except clause turns an error of
\* read_csv into False
csv_has_data(variant, file, min_rows) ==
    IF file.load = "error" THEN FALSE
    ELSE Let(file.table, LAMBDA df :
         IF Height(df) = 0 THEN FALSE
         ELSE IF \A i \in 1..Height(df) : AllNullRow(df.rows[i]) THEN FALSE
         ELSE Let(FilterSeq(df.rows, LAMBDA row : ~AllNullRow(row)), LAMBDA df_clean :
              IF df_clean = <<>> THEN FALSE
              ELSE IF TooFewRows(Len(df_clean), min_rows) THEN FALSE
              ELSE AnyColumnHasData(variant, df.cols, df.dtypes, df_clean)))

\* csv_has_data(file_path) for every file on disk
has_data ==
    [variant \in {"extractor", "reedit"} |->
        [path \in DOMAIN Disk |-> csv_has_data(variant, ReadCsv(path), MinRows)]]

\* the characters of names, in code-point order
Alphabet ==
    <<".", "0", "1", "2", "3", "4", "5", "6", "7", "8", "9", "_",
      "a", "b", "c", "d", "e", "f", "g", "h", "i", "j", "k", "l", "m",
      "n", "o", "p", "q", "r", "s", "t", "u", "v", "w", "x", "y", "z">>

Ord(c) == Idx(Alphabet, c)

RECURSIVE StrLess(_, _)
\* a < b for str
StrLess(a0, b0) ==
    Let(a0, LAMBDA a : Let(b0, LAMBDA b :
        IF b = <<>> THEN FALSE
        ELSE IF a = <<>> THEN TRUE
        ELSE IF a[1] = b[1] THEN StrLess(Tail(a), Tail(b))
        ELSE Ord(a[1]) < Ord(b[1])))

RECURSIVE InsertName(_, _)
InsertName(x, sorted0) ==
    Let(sorted0, LAMBDA sorted :
        IF sorted = <<>> THEN <<x>>
        ELSE IF StrLess(x, Head(sorted)) THEN <<x>> \o sorted
        ELSE <<Head(sorted)>> \o InsertName(x, Tail(sorted)))

RECURSIVE SortNames(_)
\* list.sort() of a list of str
SortNames(names0) ==
    Let(names0, LAMBDA names :
        IF names = <<>> THEN <<>>
        ELSE InsertName(Head(names), SortNames(Tail(names))))

RECURSIVE SplitDots(_)
\* str.split(".")
SplitDots(s0) ==
    Let(s0, LAMBDA s :
    Let(Find(s, <<".">>), LAMBDA d :
        IF d = 0 THEN <<s>>
        ELSE <<SubSeq(s, 1, d - 1)>> \o SplitDots(SubSeq(s, d + 1, Len(s)))))

RECURSIVE JoinDots(_)
\* ".".join(parts)
JoinDots(parts0) ==
    Let(parts0, LAMBDA parts :
        IF parts = <<>> THEN <<>>
        ELSE IF Len(parts) = 1 THEN parts[1]
        ELSE parts[1] \o <<".">> \o JoinDots(Tail(parts)))

\* {"subcategories": [], "files": []}
EmptyCategory == [subcategories |-> <<>>, files |-> <<>>]

\* "if category not in categories: categories[category] = ..."
WithCategory(cats, category) ==
    IF category \in DOMAIN cats THEN cats ELSE (category :> EmptyCategory) @@ cats

\* categories[category]["files"].append(cleaned_name)
AddFile(cats, category, cleaned_name) ==
    Let(WithCategory(cats, category), LAMBDA c :
        [c EXCEPT ![category].files = Append(@, cleaned_name)])

\* "Add to subcategories if not already there"
AddSubcategory(cats, category, subcategory) ==
    Let(WithCategory(cats, category), LAMBDA c :
        IF subcategory \in Range(c[category].subcategories) THEN c
        ELSE [c EXCEPT ![category].subcategories = Append(@, subcategory)])

\* the branch on len(parts) for one cleaned name that was not filtered out
Classify(cats, cleaned_name) ==
    Let(SplitDots(cleaned_name), LAMBDA parts :
        IF Len(parts) <= 2 THEN AddFile(cats, parts[1], cleaned_name)
        ELSE AddSubcategory(cats, JoinDots(SubSeq(parts, 1, 2)),
                            JoinDots(SubSeq(parts, 3, Len(parts)))))

RECURSIVE Categorize(_)
\* the dict after the loop over the names that were not filtered out
Categorize(names0) ==
    Let(names0, LAMBDA names :
        IF names = <<>> THEN EmptyDict
        ELSE Classify(Categorize(SubSeq(names, 1, Len(names) - 1)), names[Len(names)]))

RECURSIVE SortedKeys(_)
\* sorted(categories)
SortedKeys(S0) ==
    Let(S0, LAMBDA S :
        IF S = {} THEN <<>>
        ELSE Let(CHOOSE x \in S : \A y \in S : x = y \/ StrLess(x, y), LAMBDA least :
                 <<least>> \o SortedKeys(S \ {least})))

\* the lists of every category sorted, then dict(sorted(categories.items())):
\* the tree is the sequence of its categories in key order
SortedTree(cats) ==
    Let(SortedKeys(DOMAIN cats), LAMBDA keys :
        [k \in 1..Len(keys) |->
            [category |-> keys[k],
             subcategories |-> SortNames(cats[keys[k]].subcategories),
             files |-> SortNames(cats[keys[k]].files)]])

\* combination_config.get(key, {}) on what read_combination_config returns,
\* the "data_combinations" section of the configuration file
ConfigGet(config, key) ==
    Let({i \in 1..Len(config) : config[i].name = key}, LAMBDA hits :
        IF hits = {} THEN EmptyDict ELSE config[CHOOSE i \in hits : TRUE].cfg)

\* set(csv_filtering.get("enabled_csvs", [])), empty without filter_config
EnabledCsvs(opts, config) ==
    IF opts.filter_config
    THEN Range(Get(ConfigGet(config, "csv_filtering"), "enabled_csvs", <<>>))
    ELSE {}

\* read_ignore_list(ignore_file), empty without filter_ignored
IgnoreSet(opts) == IF opts.filter_ignored THEN opts.ignore_file ELSE {}

\* the configuration filter: src/samsung_health_extractor.py applies it only
\* with a non-empty enabled set, src/reedit.py always
NotInConfig(variant, opts, enabled_csvs, cleaned_name) ==
    /\ opts.filter_config
    /\ variant = "extractor" => enabled_csvs # {}
    /\ cleaned_name \notin enabled_csvs

\* the three filters of the loop, in their order: what is logged for the file
FilterFile(variant, opts, ignore_set, enabled_csvs, file_path, cleaned_name) ==
    IF opts.filter_ignored /\ cleaned_name \in ignore_set THEN "filtered_ignored"
    ELSE IF opts.filter_empty /\ ~has_data[variant][file_path] THEN "filtered_empty"
    ELSE IF NotInConfig(variant, opts, enabled_csvs, cleaned_name)
    THEN "filtered_not_in_config"
    ELSE "kept"

\* categories before get_cleaned_csv_names has returned
NoCategories == [none |-> TRUE, tree |-> <<>>]

\* get_cleaned_csv_names with hierarchical=True, as extract_data calls it
get_cleaned_csv_names(variant, paths, names, opts, config) ==
    Let(IgnoreSet(opts), LAMBDA ignore_set :
    Let(EnabledCsvs(opts, config), LAMBDA enabled_csvs :
    Let([i \in 1..Len(paths) |->
            FilterFile(variant, opts, ignore_set, enabled_csvs, paths[i], names[i])],
        LAMBDA verdicts :
    Let(SeqFilterIdx([i \in 1..Len(paths) |-> verdicts[i] = "kept"], Len(paths), 1),
        LAMBDA kept :
        [categories |-> SortedTree(Categorize([j \in 1..Len(kept) |-> names[kept[j]]])),
         log |-> verdicts]))))

(***************************************************************************)
(* One iteration of the source loop.  The result says how the iteration    *)
(* ended (the message it logs), how the loop goes on ("break" or "next"),  *)
(* and the values of combined_df and merge_key after it.                   *)
(***************************************************************************)
\* a failure handler that stops the source loop for every source
OnFailureBreaks(required) == "break"

\* a failure handler that goes on to the next source for every source
OnFailureContinues(required) == "next"

\* "if required: break / else: continue"
OnFailure(required) == IF required THEN "break" ELSE "next"

StepResult(msg, ctl, combined, mk) ==
    [msg |-> msg, ctl |-> ctl, combined |-> combined, merge_key |-> mk]

\* the join of a prepared table into the accumulated one
CombineStep(variant, required, p, combined) ==
    IF combined.none THEN StepResult("base", "next", p.df, p.merge_key)
    ELSE Let(Renormalize(variant, combined, p.merge_key), LAMBDA existing :
             IF JoinRaises(Lib(variant), existing, p.df, p.merge_key)
             THEN StepResult("processing_error", OnFailure(required), existing, p.merge_key)
             ELSE StepResult("merged", "next",
                             OuterJoin(Lib(variant), existing, p.df, p.merge_key),
                             p.merge_key))

\* the iteration once the file is found: read_csv and the try block around it
LoadSource(variant, source, file, combined, mk) ==
    Let(Get(source, "required", FALSE), LAMBDA required :
        IF file.load = "error"
        THEN StepResult("processing_error", OnFailure(required), combined, mk)
        ELSE Let(Prepare(variant, source, file.table, mk), LAMBDA p :
                 IF p.kind = "no_columns"
                 THEN StepResult("no_required_columns", OnFailure(required), combined,
                                 p.merge_key)
                 ELSE IF p.kind = "error"
                 THEN StepResult("processing_error", OnFailure(required), combined,
                                 p.merge_key)
                 ELSE CombineStep(variant, required, p, combined)))

ProcessSource(variant, source, combined, mk) ==
    Let(FindCsv(Get(source, "csv_name", <<>>)), LAMBDA f :
        IF f = 0
        THEN StepResult(IF Get(source, "required", FALSE) THEN "required_source_not_found"
                        ELSE "optional_source_not_found",
                        OnFailure(Get(source, "required", FALSE)), combined, mk)
        ELSE LoadSource(variant, source, ReadCsv(csv_paths[f]), combined, mk))

\* x.get("priority", 999)
PriorityOf(source) == Get(source, "priority", 999)

RECURSIVE InsertSourceBeforeEqual(_, _)
\* an insertion that puts a source before those of equal priority
InsertSourceBeforeEqual(x, sorted0) ==
    Let(sorted0, LAMBDA sorted :
        IF sorted = <<>> THEN <<x>>
        ELSE IF PriorityOf(x) <= PriorityOf(sorted[Len(sorted)])
        THEN Append(InsertSourceBeforeEqual(x, SubSeq(sorted, 1, Len(sorted) - 1)),
                    sorted[Len(sorted)])
        ELSE Append(sorted, x))

RECURSIVE InsertSource(_, _)
InsertSource(x, sorted0) ==
    Let(sorted0, LAMBDA sorted :
        IF sorted = <<>> THEN <<x>>
        ELSE IF PriorityOf(x) < PriorityOf(sorted[Len(sorted)])
        THEN Append(InsertSource(x, SubSeq(sorted, 1, Len(sorted) - 1)), sorted[Len(sorted)])
        ELSE Append(sorted, x))

RECURSIVE SortSources(_)
\* sources.sort(key=lambda x: x.get("priority", 999)): stable, ascending
SortSources(sources0) ==
    Let(sources0, LAMBDA sources :
        IF sources = <<>> THEN <<>>
        ELSE InsertSource(sources[Len(sources)],
                          SortSources(SubSeq(sources, 1, Len(sources) - 1))))

(***************************************************************************)
(* The run.                                                                *)
(***************************************************************************)
Combo == combination_config[ci]
Sources == Get(Combo.cfg, "sources", <<>>)
OutputConfig == Get(Combo.cfg, "output_structure", EmptyDict)

Event(c, k, msg) == [c |-> c, s |-> k, msg |-> msg]

\* output_file of a combination: "unknown.csv" is the default of
\* src/samsung_health_extractor.py, "<combo_name>.csv" that of src/reedit.py
OutputPath(variant, combo) ==
    IF variant = "extractor" THEN Get(combo.cfg, "output_file", "unknown.csv")
    ELSE Get(combo.cfg, "output_file", combo.name \o ".csv")

Pipeline(variant, T, mk, oc) ==
    IF variant = "extractor" THEN PipelineExtractor(T, mk, oc) ELSE PipelineReedit(T, mk, oc)

\* main(): the two directory checks of src/samsung_health_extractor.py;
\* src/reedit.py calls extract_data() at once
Main ==
    /\ pc = "main"
    /\ IF impl = "extractor" /\ env \in {"missing", "notdir"}
       THEN pc' = "exit" /\ exit_status' = "1"
       ELSE pc' = "extract" /\ UNCHANGED exit_status
    /\ UNCHANGED <<impl, config_file, env, unwritable, csv_paths, options, cleaned_names,
                   categories, catalog_log, combination_config, ci, si, combined_df,
                   merge_key, outputs, log>>

\* extract_data() up to the call of get_cleaned_csv_names: without a dump
\* directory it raises (ValueError, or IndexError in src/reedit.py); with one,
\* the files are listed and their names cleaned
\* a run that goes on without a dump directory
NoDumpDirsIgnored == FALSE

\* "if not dump_dirs": the glob of the data path finds nothing (there is no
\* such directory, it is a file, or it is empty)
NoDumpDirs == env # "ok"

ExtractData ==
    /\ pc = "extract"
    /\ IF NoDumpDirs
       THEN pc' = "exit" /\ exit_status' = "1" /\ UNCHANGED cleaned_names
       ELSE /\ pc' = "catalog"
            /\ cleaned_names' = [i \in 1..Len(csv_paths) |-> all_cleaned_names[csv_paths[i]]]
            /\ UNCHANGED exit_status
    /\ UNCHANGED <<impl, config_file, env, unwritable, csv_paths, options, categories, catalog_log,
                   combination_config, ci, si, combined_df, merge_key, outputs, log>>

\* categories = get_cleaned_csv_names(csv_paths), then read_combination_config()
\* and "if combination_config": the combinations are processed, or skipped
GetCleanedCsvNames ==
    /\ pc = "catalog"
    /\ \E r \in {get_cleaned_csv_names(impl, csv_paths, cleaned_names, options,
                                       combination_config)} :
          /\ categories' = [none |-> FALSE, tree |-> r.categories]
          /\ catalog_log' = r.log
    /\ IF combination_config = <<>>
       THEN pc' = "stats" /\ UNCHANGED ci
       ELSE pc' = "combo" /\ ci' = 1
    /\ UNCHANGED <<impl, config_file, env, unwritable, csv_paths, options, cleaned_names, exit_status,
                   combination_config, si, combined_df, merge_key, outputs, log>>

\* the head of the loop over combinations: no sources -> continue; otherwise
\* the sources are sorted in place and the source loop starts
BeginCombination ==
    /\ pc = "combo"
    /\ ci <= Len(combination_config)
    /\ IF Sources = <<>>
       THEN /\ log' = log \o <<Event(ci, 0, "processing_combination"),
                               Event(ci, 0, "no_sources")>>
            /\ ci' = ci + 1
            /\ UNCHANGED <<pc, si, combination_config, combined_df, merge_key>>
       ELSE /\ log' = Append(log, Event(ci, 0, "processing_combination"))
            /\ combination_config' =
                   [combination_config EXCEPT ![ci].cfg.sources = SortSources(Sources)]
            /\ combined_df' = NoTable
            /\ merge_key' = None
            /\ si' = 1
            /\ pc' = "source"
            /\ UNCHANGED ci
    /\ UNCHANGED <<impl, config_file, env, unwritable, csv_paths, options, cleaned_names,
                   categories, catalog_log, exit_status, outputs>>

\* an iteration of the source loop that, when it is the last one, goes on to
\* the next combination without the output step
SourceStepSkipsOutput(msgs) ==
    /\ \E r \in {ProcessSource(impl, Sources[si], combined_df, merge_key)} :
          /\ r.msg \in msgs
          /\ combined_df' = r.combined
          /\ merge_key' = r.merge_key
          /\ log' = Append(log, Event(ci, si, r.msg))
          /\ IF r.ctl = "break" \/ si = Len(Sources)
             THEN pc' = "combo" /\ ci' = ci + 1 /\ UNCHANGED si
             ELSE si' = si + 1 /\ UNCHANGED <<pc, ci>>
    /\ UNCHANGED <<impl, config_file, env, unwritable, csv_paths, options, cleaned_names,
                   categories, catalog_log, exit_status, combination_config, outputs>>

\* one iteration of the source loop, ending with one of the messages msgs
SourceStep(msgs) ==
    /\ \E r \in {ProcessSource(impl, Sources[si], combined_df, merge_key)} :
          /\ r.msg \in msgs
          /\ combined_df' = r.combined
          /\ merge_key' = r.merge_key
          /\ log' = Append(log, Event(ci, si, r.msg))
          /\ IF r.ctl = "break" \/ si = Len(Sources)
             THEN pc' = "output" /\ UNCHANGED si
             ELSE si' = si + 1 /\ UNCHANGED pc
    /\ UNCHANGED <<impl, config_file, env, unwritable, csv_paths, options, cleaned_names,
                   categories, catalog_log, exit_status, combination_config, ci, outputs>>

\* the file of the source is not found
SourceNotFound ==
    /\ pc = "source"
    /\ SourceStep({"required_source_not_found", "optional_source_not_found"})

\* none of the requested columns exists
SourceNoColumns ==
    /\ pc = "source"
    /\ SourceStep({"no_required_columns"})

\* the except clause of the source
SourceError ==
    /\ pc = "source"
    /\ SourceStep({"processing_error"})

\* the first loaded source becomes the accumulated table
SourceBase ==
    /\ pc = "source"
    /\ SourceStep({"base"})

\* a later source is joined into the accumulated table
SourceMerged ==
    /\ pc = "source"
    /\ SourceStep({"merged"})

\* the output guard left out: the pipeline runs whatever was accumulated
HasDataUnguarded == TRUE

HasData == ~combined_df.none /\ ~IsEmpty(impl, combined_df)

\* an exception in the output pipeline: the write fails, or (src/reedit.py)
\* the merge key is no datetime column at strftime
PipelineRaises ==
    \/ impl = "reedit" /\ StrftimeRaises(combined_df, merge_key)
    \/ OutputPath(impl, Combo) \in unwritable

NextCombination ==
    /\ ci' = ci + 1
    /\ pc' = "combo"
    /\ UNCHANGED <<impl, config_file, env, unwritable, csv_paths, options, cleaned_names,
                   categories, catalog_log, exit_status, combination_config, si,
                   combined_df, merge_key>>

\* "Process the combined data if we have any": nothing to write
OutputNoData ==
    /\ pc = "output"
    /\ ~HasData
    /\ log' = Append(log, Event(ci, 0, "debug_no_data_to_output"))
    /\ UNCHANGED outputs
    /\ NextCombination

\* the combination without its except clause: the exception ends the run
OutputErrorUncaught ==
    /\ pc = "output"
    /\ HasData
    /\ PipelineRaises
    /\ log' = Append(log, Event(ci, 0, "combination_processing_error"))
    /\ pc' = "exit"
    /\ exit_status' = "1"
    /\ UNCHANGED <<impl, config_file, env, unwritable, csv_paths, options, cleaned_names,
                   categories, catalog_log, combination_config, ci, si, combined_df,
                   merge_key, outputs>>

\* the except clause of the combination
OutputError ==
    /\ pc = "output"
    /\ HasData
    /\ PipelineRaises
    /\ log' = Append(log, Event(ci, 0, "combination_processing_error"))
    /\ UNCHANGED outputs
    /\ NextCombination

\* the pipeline ran and the file was written
OutputWrite ==
    /\ pc = "output"
    /\ HasData
    /\ ~PipelineRaises
    /\ outputs' = (OutputPath(impl, Combo) :> Pipeline(impl, combined_df, merge_key, OutputConfig))
                  @@ outputs
    /\ log' = Append(log, Event(ci, 0, "output_created"))
    /\ NextCombination

\* the loop over combinations is exhausted
EndCombinations ==
    /\ pc = "combo"
    /\ ci > Len(combination_config)
    /\ pc' = "stats"
    /\ UNCHANGED <<impl, config_file, env, unwritable, csv_paths, options, cleaned_names,
                   categories, catalog_log, exit_status, combination_config, ci, si,
                   combined_df, merge_key, outputs, log>>

\* the statistics are printed and the process ends normally
Finish ==
    /\ pc = "stats"
    /\ pc' = "exit"
    /\ exit_status' = "0"
    /\ UNCHANGED <<impl, config_file, env, unwritable, csv_paths, options, cleaned_names,
                   categories, catalog_log, combination_config, ci, si, combined_df,
                   merge_key, outputs, log>>

Next ==
    \/ Main
    \/ ExtractData
    \/ GetCleanedCsvNames
    \/ BeginCombination
    \/ SourceNotFound
    \/ SourceNoColumns
    \/ SourceError
    \/ SourceBase
    \/ SourceMerged
    \/ OutputNoData
    \/ OutputError
    \/ OutputWrite
    \/ EndCombinations
    \/ Finish

(***************************************************************************)
(* Inputs: the configurations the run is started with.                     *)
(***************************************************************************)
NSleep == <<".", "s", "l", "e", "e", "p">>
NTemp == <<".", "t", "e", "m", "p">>
NBroken == <<".", "b", "r", "o", "k", "e", "n">>
NHr == <<".", "h", "r">>
NSteps == <<".", "s", "t", "e", "p", "s">>
NExercise == <<".", "e", "x", "e", "r", "c", "i", "s", "e">>

SleepReq ==
    [csv_name |-> NSleep, priority |-> 1, required |-> TRUE,
     columns_to_include |-> <<"sleep_score">>]
SleepAll ==
    [csv_name |-> NSleep, priority |-> 1, required |-> TRUE,
     columns_to_include |-> <<"sleep_score", "sexual_activity">>]
SleepAlias ==
    [csv_name |-> NSleep, priority |-> 1, required |-> TRUE,
     columns_to_include |-> <<"sleep_score">>,
     rename_columns |-> ("day_time" :> "timestamp"),
     merge_key |-> "day_time", merge_key_rename |-> "day_time"]
SleepBogus(req) ==
    [csv_name |-> NSleep, priority |-> 2, required |-> req,
     columns_to_include |-> <<"bogus">>]
SleepRenameMissing(req) ==
    [csv_name |-> NSleep, priority |-> 2, required |-> req,
     columns_to_include |-> <<"sleep_score">>,
     rename_columns |-> ("stage" :> "sleep_stage")]
Exercise(req) ==
    [csv_name |-> NExercise, priority |-> 2, required |-> req,
     columns_to_include |-> <<"calories">>]
Temp(req) ==
    [csv_name |-> NTemp, priority |-> 3, required |-> req,
     columns_to_include |-> <<"temperature">>,
     merge_key |-> "start_time", merge_key_rename |-> "day_time"]
TempAlias ==
    [csv_name |-> NTemp, priority |-> 3,
     columns_to_include |-> <<"temperature">>,
     rename_columns |-> ("start_time" :> "measured_at"),
     merge_key |-> "start_time", merge_key_rename |-> "day_time"]
Broken(req) == [csv_name |-> NBroken, priority |-> 2, required |-> req]
Hr(req) == [csv_name |-> NHr, priority |-> 2, required |-> req]
HrBogus(req) ==
    [csv_name |-> NHr, priority |-> 2, required |-> req,
     columns_to_include |-> <<"bogus">>]
Steps == [csv_name |-> NSteps, required |-> FALSE]
\* sources of a combination keyed by full timestamps
TempDatetime ==
    [csv_name |-> NTemp, priority |-> 1, required |-> TRUE,
     columns_to_include |-> <<"temperature">>,
     merge_key |-> "start_time", merge_key_rename |-> "datetime"]
SleepDatetime ==
    [csv_name |-> NSleep, priority |-> 2,
     columns_to_include |-> <<"sleep_score">>,
     merge_key |-> "day_time", merge_key_rename |-> "datetime"]
\* sources whose alias of the merge key has the name of another key
SleepAliasDatetime ==
    [csv_name |-> NSleep, priority |-> 2,
     columns_to_include |-> <<"sleep_score">>,
     rename_columns |-> ("day_time" :> "datetime")]
TempAliasDayTime ==
    [csv_name |-> NTemp, priority |-> 3,
     columns_to_include |-> <<"temperature">>,
     rename_columns |-> ("start_time" :> "day_time"),
     merge_key |-> "start_time", merge_key_rename |-> "datetime"]

\* sequences over S of length 1..n
SeqsUpTo(S, n) == UNION {[1..k -> S] : k \in 1..n}

ComboName(i) == <<"c1", "c2", "c3", "c4">>[i]
Named(cfgs) == [i \in 1..Len(cfgs) |-> [name |-> ComboName(i), cfg |-> cfgs[i]]]

\* the call extract_data makes, without an ignore file
DefaultOptions ==
    [ignore_file |-> {}, filter_ignored |-> TRUE, filter_empty |-> TRUE,
     filter_config |-> TRUE, csv_filtering |-> EmptyDict]

Input(envv, config, bad) ==
    [env |-> envv, config |-> config, unwritable |-> bad, files |-> DumpPaths,
     options |-> DefaultOptions]

\* one combination whose sources fail in every way a source can fail:
\* sources whose file is not found or cannot be loaded, and sources whose
\* file is read but lacks what the source asks of it
UnreadSources ==
    {SleepReq, Temp(FALSE)}
    \cup {Exercise(r) : r \in BOOLEAN} \cup {Broken(r) : r \in BOOLEAN}

LackingSources ==
    {SleepReq, Temp(FALSE), SleepBogus(FALSE), SleepRenameMissing(TRUE)}
    \cup {Hr(r) : r \in BOOLEAN} \cup {HrBogus(r) : r \in BOOLEAN}

SourceInputs ==
    {Input("ok", Named(<<[sources |-> ss, output_file |-> "a.csv"]>>), {}) :
        ss \in SeqsUpTo(UnreadSources, MaxSources) \cup SeqsUpTo(LackingSources, MaxSources)}

\* one combination whose sources rename, alias and select columns
TransformSources == {SleepReq, SleepAll, SleepAlias, TempAlias, Temp(FALSE), Steps}

TransformInputs ==
    {Input("ok", Named(<<[sources |-> ss, output_file |-> "a.csv"]>>), {}) :
        ss \in SeqsUpTo(TransformSources, MaxSources)}

\* one combination whose sources name their keys "datetime" or "day_time"
GranularitySources ==
    {SleepReq, TempDatetime, SleepDatetime, SleepAliasDatetime, TempAliasDayTime}

GranularityInputs ==
    {Input("ok", Named(<<[sources |-> ss, output_file |-> "a.csv"]>>), {}) :
        ss \in SeqsUpTo(GranularitySources, MaxSources)}

\* one combination whose first source may be read and then skipped for
\* lacking its columns, before a source with another key name is loaded
HrBogusDatetime ==
    [csv_name |-> NHr, priority |-> 1,
     columns_to_include |-> <<"bogus">>, merge_key_rename |-> "datetime"]

SkippedFirstSources == {HrBogusDatetime, HrBogus(FALSE), SleepDatetime, SleepReq}

SkippedFirstInputs ==
    {Input("ok", Named(<<[sources |-> ss, output_file |-> "a.csv"]>>), {}) :
        ss \in SeqsUpTo(SkippedFirstSources, MaxSources)}

\* one combination of sources that load, with every output structure
FillValues == {Absent, I64(0), I64(5), EmptyStr, XStr(3)}

DataProcessing ==
    {EmptyDict}
    \cup {[fill_missing_values |-> v] : v \in FillValues \ {Absent}}
    \cup {[interpolate_temperature |-> TRUE]}
    \cup {[fill_missing_values |-> v, interpolate_temperature |-> TRUE] :
             v \in FillValues \ {Absent}}

OutputStructures ==
    {[data_processing |-> dp] : dp \in DataProcessing}
    \cup {[data_processing |-> dp, final_columns |-> fc] :
             dp \in DataProcessing,
             fc \in {<<"day_time", "temperature", "sexual_activity">>, <<"bogus">>}}
    \cup {[data_processing |-> dp, sort_ascending |-> FALSE] : dp \in DataProcessing}
    \cup {[primary_sort |-> c] : c \in {"temperature", "bogus"}}
    \cup {[primary_sort |-> "temperature", sort_ascending |-> a, data_processing |-> dp] :
             a \in BOOLEAN,
             dp \in {EmptyDict, [fill_missing_values |-> I64(5)],
                     [interpolate_temperature |-> TRUE]}}
    \cup {EmptyDict}

PipelineInputs ==
    {Input("ok", Named(<<[sources |-> ss, output_file |-> "a.csv", output_structure |-> oc]>>),
           {}) :
        ss \in {<<SleepAll>>, <<SleepAll, Temp(FALSE)>>, <<Temp(FALSE), SleepAll>>},
        oc \in OutputStructures}

\* several combinations, with and without output_file, sources or a
\* writable output path
Combinations ==
    {[sources |-> <<SleepReq>>, output_file |-> "a.csv"],
     [sources |-> <<SleepReq, Temp(FALSE)>>, output_file |-> "b.csv"],
     [sources |-> <<SleepReq>>],
     [sources |-> <<Temp(FALSE)>>],
     [sources |-> <<Exercise(TRUE), Temp(FALSE)>>, output_file |-> "a.csv"],
     [sources |-> <<>>, output_file |-> "a.csv"],
     [output_file |-> "b.csv"]}

MaxCombinations == 2

RunInputs ==
    {Input("ok", Named(cs), bad) :
        cs \in SeqsUpTo(Combinations, MaxCombinations), bad \in {{}, {"a.csv"}}}

\* runs that fail before any combination, and a run without configuration
RunLevelInputs ==
    {Input(e, Named(<<[sources |-> <<SleepReq>>, output_file |-> "a.csv"]>>), {}) :
        e \in {"missing", "notdir", "nodumps"}}
    \cup {Input("ok", <<>>, {})}

(***************************************************************************)
(* Inputs of the catalog: listings of files with more or fewer rows, with  *)
(* names that clean to the same name, and the filter settings.             *)
(***************************************************************************)
\* a dump that holds every one of the files
FullListing ==
    <<PathOf(RawSleep2023), PathOf(RawExercise), PathOf(RawHeartRate2023), PathOf(RawSteps),
      PathOf(RawHeartRate2024), PathOf(RawNotes), PathOf(RawSleep2024)>>

MaxFiles == 2

Listings == SeqsUpTo(CatalogPaths, MaxFiles) \cup {FullListing}

\* the csv_filtering section of the configuration file, at top level, and
\* one placed among the data_combinations
TopLevelSleepOnly == [enabled_csvs |-> <<NSleep>>]
TopLevelNoneEnabled == [enabled_csvs |-> <<>>]
NestedFiltering(names) == <<[name |-> "csv_filtering", cfg |-> [enabled_csvs |-> names]]>>

\* filter_config, the top-level section, the data_combinations
ConfigChoices ==
    {<<FALSE, TopLevelSleepOnly, <<>> >>,
     <<TRUE, EmptyDict, <<>> >>,
     <<TRUE, TopLevelSleepOnly, <<>> >>,
     <<TRUE, TopLevelNoneEnabled, NestedFiltering(<<NHeartRate>>)>>,
     <<TRUE, EmptyDict, NestedFiltering(<<>>)>>}

CatalogInputs ==
    {[env |-> "ok", config |-> cc[3], unwritable |-> {}, files |-> fs,
      options |-> [ignore_file |-> {NSleep}, filter_ignored |-> fi, filter_empty |-> fe,
                   filter_config |-> cc[1], csv_filtering |-> cc[2]]] :
        fs \in Listings, fi \in BOOLEAN, fe \in BOOLEAN,
        cc \in ConfigChoices}

\* the families of inputs
Inputs ==
    <<SourceInputs, TransformInputs, PipelineInputs, RunInputs, RunLevelInputs,
      CatalogInputs, GranularityInputs, SkippedFirstInputs>>

Init ==
    /\ impl \in {"extractor", "reedit"}
    /\ \E family \in DOMAIN Inputs : \E in \in Inputs[family] :
          /\ env = in.env
          /\ config_file = in.config
          /\ combination_config = in.config
          /\ unwritable = in.unwritable
          /\ csv_paths = in.files
          /\ options = in.options
    /\ cleaned_names = <<>>
    /\ categories = NoCategories
    /\ catalog_log = <<>>
    /\ pc = "main"
    /\ exit_status = "running"
    /\ ci = 0
    /\ si = 0
    /\ combined_df = NoTable
    /\ merge_key = None
    /\ outputs = <<>>
    /\ log = <<>>

Spec == Init /\ [][Next]_vars

(***************************************************************************)
(* Properties.  The log tells what happened to each combination c and to   *)
(* each of its sources k (k = 0: the combination as a whole).              *)
(***************************************************************************)
Logged(c, msg) == \E i \in 1..Len(log) : log[i].c = c /\ log[i].msg = msg
Attempted(c) == Logged(c, "processing_combination")
Loaded(c) == Logged(c, "base")
Written(c) == Logged(c, "output_created")
Last(s) == s[Len(s)]

\* the source an event of the source loop is about (the list is sorted when
\* the loop starts and stays as it is)
SourceOf(e) == combination_config[e.c].cfg.sources[e.s]
IsRequired(source) == Get(source, "required", FALSE)

SourceFailures ==
    {"required_source_not_found", "optional_source_not_found", "no_required_columns",
     "processing_error"}
Failures == SourceFailures \cup {"combination_processing_error"}

\* a combination has just been written: its output and its key are in the state
JustWrote == log # <<>> /\ Last(log).msg = "output_created"
WrittenCombo == combination_config[Last(log).c]
WrittenTable == outputs[OutputPath(impl, WrittenCombo)]
WrittenStructure == Get(WrittenCombo.cfg, "output_structure", EmptyDict)

\* the files written are those of the combinations that logged output_created
OutputsMatchLog ==
    DOMAIN outputs =
        {OutputPath(impl, combination_config[c]) :
            c \in {d \in 1..Len(combination_config) : Written(d)}}

\* C1: a failure of any kind in one combination never terminates the run and
\* never prevents a later combination from being processed: the run does not
\* end with an error status, and when the loop is over every combination after
\* the failing one has been attempted
C1_FailureNeverStopsRun ==
    \A i \in 1..Len(log) :
        log[i].msg \in Failures =>
            /\ exit_status # "1"
            /\ pc \in {"stats", "exit"} =>
                   \A d \in (log[i].c + 1)..Len(combination_config) : Attempted(d)
            /\ pc = "exit" => exit_status = "0"

\* C1 happens: the first combination failed in its pipeline, the second one
\* was written, and the run ended normally
C1_Witness ==
    /\ pc = "exit"
    /\ Logged(1, "combination_processing_error")
    /\ Written(2)

\* C2 as stated: when a required source fails after an earlier source was
\* loaded into the MergedTable, no remaining source is processed and no output
\* file is written for the combination
C2_RequiredFailureDiscardsPartial ==
    \A i \in 1..Len(log) :
        (/\ log[i].msg \in SourceFailures
         /\ IsRequired(SourceOf(log[i]))
         /\ \E j \in 1..(i - 1) : log[j].c = log[i].c /\ log[j].msg \in {"base", "merged"})
        => /\ ~Written(log[i].c)
           /\ \A j \in (i + 1)..Len(log) : log[j].c = log[i].c => log[j].s = 0

\* C3: a combination in which no source loaded writes no output file, the
\* run goes on with the next combination and ends with status success
C3_NothingLoadedNothingWritten ==
    /\ OutputsMatchLog
    /\ \A c \in 1..Len(combination_config) :
           (Attempted(c) /\ ~Loaded(c)) =>
               /\ ~Written(c)
               /\ exit_status # "1"
               /\ pc \in {"stats", "exit"} =>
                      \A d \in (c + 1)..Len(combination_config) : Attempted(d)
               /\ pc = "exit" => exit_status = "0"

\* C3 happens: the first combination loaded nothing (its required source was
\* not found), the second one was written, and the run ended with success
C3_Witness ==
    /\ pc = "exit"
    /\ exit_status = "0"
    /\ Logged(1, "required_source_not_found")
    /\ ~Loaded(1)
    /\ Written(2)
    /\ Cardinality(DOMAIN outputs) = 1

\* the source loop run over a list of sources from index k on: the MergedTable
\* it leaves
RECURSIVE RunSources(_, _, _, _, _)
RunSources(variant, sources, k, combined, mk) ==
    IF k > Len(sources) THEN combined
    ELSE Let(ProcessSource(variant, sources[k], combined, mk), LAMBDA r :
             IF r.ctl = "break" THEN r.combined
             ELSE RunSources(variant, sources, k + 1, r.combined, r.merge_key))

\* an optional source whose file is not found
SkippedOptional(source) ==
    ~IsRequired(source) /\ FindCsv(Get(source, "csv_name", <<>>)) = 0

WithoutSkipped(sources) == FilterSeq(sources, LAMBDA x : ~SkippedOptional(x))

\* C4: an optional source that cannot be resolved is only skipped: the
\* sources after it are processed and the MergedTable, and so the output, is
\* what the sources that did load make of it - the same as if the skipped
\* source were not listed at all (stated of the combinations that list such
\* a source)
C4_OptionalUnresolvedOnlySkipped ==
    /\ (pc = "output" /\ \E k \in DOMAIN Sources : SkippedOptional(Sources[k])) =>
           combined_df = RunSources(impl, WithoutSkipped(Sources), 1, NoTable, None)
    /\ (JustWrote /\ \E k \in DOMAIN Get(WrittenCombo.cfg, "sources", <<>>) :
                         SkippedOptional(Get(WrittenCombo.cfg, "sources", <<>>)[k])) =>
           WrittenTable =
               Pipeline(impl,
                        RunSources(impl,
                                   WithoutSkipped(Get(WrittenCombo.cfg, "sources", <<>>)),
                                   1, NoTable, None),
                        merge_key, WrittenStructure)

\* C4 happens: one source was loaded, an optional source after it was not
\* found, a third source was then joined in, and the output was written
C4_Witness ==
    /\ JustWrote
    /\ \E i, j, k \in 1..Len(log) :
          /\ i < j /\ j < k
          /\ log[i].c = Last(log).c /\ log[i].msg = "base"
          /\ log[j].c = Last(log).c /\ log[j].msg = "optional_source_not_found"
          /\ log[k].c = Last(log).c /\ log[k].msg = "merged"

\* C5: an error raised while a source is loaded or transformed is handled as
\* a resolution failure is: a required source stops the source loop, an
\* optional one lets it go on with the next source, and the MergedTable
\* keeps the value it had
C5_LoadErrorHandledLikeResolutionFailure ==
    [][(pc = "source" /\ log' # log /\ Last(log').msg = "processing_error") =>
           /\ combined_df' = combined_df
           /\ outputs' = outputs
           /\ IF IsRequired(Sources[si]) \/ si = Len(Sources)
              THEN pc' = "output"
              ELSE pc' = "source" /\ si' = si + 1]_vars

\* C5 happens: after a source was loaded a required source raised; the loop
\* stopped with the MergedTable still there
C5_Witness ==
    /\ pc = "output"
    /\ ~combined_df.none
    /\ Last(log).msg = "processing_error"
    /\ Last(log).c = ci
    /\ IsRequired(SourceOf(Last(log)))
    /\ Logged(ci, "base")

\* C6 as stated: a source whose columns_to_include is not empty and names no
\* column of the loaded table is a load error and contributes nothing,
\* whether or not its merge-key column exists
RequestsOnlyMissing(source) ==
    LET f == FindCsv(Get(source, "csv_name", <<>>))
        cti == Get(source, "columns_to_include", <<>>)
    IN /\ f # 0
       /\ ReadCsv(csv_paths[f]).load = "ok"
       /\ cti # <<>>
       /\ \A k \in 1..Len(cti) : ~HasCol(ReadCsv(csv_paths[f]).table, cti[k])

C6_NoRequestedColumnIsLoadError ==
    \A i \in 1..Len(log) :
        (log[i].s > 0 /\ RequestsOnlyMissing(SourceOf(log[i])))
        => log[i].msg = "no_required_columns"

\* the set of key values of a table
KeySet(T, key) == {T.rows[i][ColIdx(T, key)] : i \in 1..Len(T.rows)}

\* the prepared table of the source the loop is at
PreparedSource ==
    Prepare(impl, Sources[si],
            ReadCsv(csv_paths[FindCsv(Get(Sources[si], "csv_name", <<>>))]).table,
            merge_key).df

\* C7: after a join the key set of the MergedTable is the union of the key
\* sets of the two sides, and a row whose key is on one side only holds null
\* in every column the other side contributed
C7_JoinKeepsUnionOfKeys ==
    [][(pc = "source" /\ log' # log /\ Last(log').msg = "merged") =>
          LET L == combined_df
              R == PreparedSource
              J == combined_df'
              key == merge_key'
              k == ColIdx(J, key)
              n == Len(L.cols)
          IN /\ KeySet(J, key) = KeySet(L, key) \cup KeySet(R, key)
             /\ \A i \in 1..Len(J.rows) :
                   /\ J.rows[i][k] \notin KeySet(R, key) =>
                          \A c \in (n + 1)..Len(J.cols) : IsNull(J.rows[i][c])
                   /\ J.rows[i][k] \notin KeySet(L, key) =>
                          \A c \in (1..n) \ {k} : IsNull(J.rows[i][c])]_vars

\* C7 happens: two sources with overlapping key sets were joined; the result
\* has keys of the left side only, of the right side only, and of both
C7_Witness ==
    /\ log # <<>>
    /\ Last(log).msg = "merged"
    /\ HasCol(combined_df, merge_key)
    /\ Cardinality(KeySet(combined_df, merge_key)) >= 3
    /\ \E i, j \in 1..Len(combined_df.rows) :
          /\ IsNull(combined_df.rows[i][Len(combined_df.cols)])
          /\ ~IsNull(combined_df.rows[j][Len(combined_df.cols)])
          /\ \E c \in 1..(Len(combined_df.cols) - 1) : IsNull(combined_df.rows[j][c])

\* a source of the written combination that was loaded and whose
\* rename_columns maps its merge key to another name
AliasesKey(source) ==
    /\ SourceMergeKey(source) \in DOMAIN RenameColumns(source)
    /\ RenameColumns(source)[SourceMergeKey(source)] # MergeKeyRename(source)

\* C8 as stated: when rename_columns maps the merge key of a source to another
\* name, the output has both the merge-key column and the alias column, and
\* the two hold the same value in every row
C8_AliasEqualsKey ==
    (JustWrote /\ "final_columns" \notin DOMAIN WrittenStructure) =>
        \A i \in 1..Len(log) :
            (/\ log[i].c = Last(log).c
             /\ log[i].msg \in {"base", "merged"}
             /\ AliasesKey(SourceOf(log[i])))
            => LET alias == RenameColumns(SourceOf(log[i]))[SourceMergeKey(SourceOf(log[i]))]
               IN /\ HasCol(WrittenTable, merge_key)
                  /\ HasCol(WrittenTable, alias)
                  /\ Column(WrittenTable, alias) = Column(WrittenTable, merge_key)

\* C9 as stated: when fill_missing_values is set, falsy values included, no
\* null cell is left in the table (interpolation, which makes nulls of its
\* own, set aside)
C9_FillReplacesEveryNull ==
    (/\ JustWrote
     /\ "fill_missing_values" \in DOMAIN Get(WrittenStructure, "data_processing", EmptyDict)
     /\ ~WantInterpolate(WrittenStructure))
    => \A i \in 1..Len(WrittenTable.rows) :
           \A j \in 1..Len(WrittenTable.cols) : ~IsNull(WrittenTable.rows[i][j])

\* C10 as stated: in every output written, a sexual_activity column holds
\* only 1 or null
C10_MarkerOnlyOneOrNull ==
    (JustWrote /\ HasCol(WrittenTable, "sexual_activity")) =>
        \A i \in 1..Len(WrittenTable.rows) :
            Column(WrittenTable, "sexual_activity")[i] \in {Null, I64(1)}

\* a temperature cell that counts as missing: null, or the sentinel -1.0
IsGap(c) == IsNull(c) \/ (c.t \in {"int", "flt"} /\ Hundredths(c) = -Scale)

\* is v (hundredths) the value at row i of the line through rows p and q,
\* to within the rounding to two decimals?
OnLine(cells, p, q, i, v) ==
    LET exact == Hundredths(cells[p]) * (q - p)
                 + (Hundredths(cells[q]) - Hundredths(cells[p])) * (i - p)
        diff == v * (q - p) - exact
    IN 2 * diff <= (q - p) /\ 2 * (-diff) <= (q - p)

\* C11: with interpolate_temperature set and a numeric temperature column,
\* the sentinel -1.0 counts as missing, every missing value between two
\* non-missing values (in output row order) becomes the value on the straight
\* line between its nearest non-missing neighbours, and every non-missing
\* value stays as it is, to two decimals
C11_InterpolationIsLinear ==
    (JustWrote /\ impl = "extractor" /\ WantInterpolate(WrittenStructure)) =>
        \A before \in {FilledExtractor(combined_df, merge_key, WrittenStructure)} :
            (/\ HasCol(before, "temperature")
             /\ IsNumericDtype(Dtype(before, "temperature"))
             /\ Height(WrittenTable) = Height(before))
            => \A cells \in {Column(before, "temperature")} :
               \A out \in {Column(WrittenTable, "temperature")} :
               \A i \in 1..Len(cells) :
                   IF IsGap(cells[i])
                   THEN \A p \in 1..(i - 1) : \A q \in (i + 1)..Len(cells) :
                            (/\ ~IsGap(cells[p])
                             /\ ~IsGap(cells[q])
                             /\ \A j \in (p + 1)..(q - 1) : IsGap(cells[j]))
                            => /\ out[i].t = "flt"
                               /\ OnLine(cells, p, q, i, out[i].v)
                   ELSE out[i] = F64(Hundredths(cells[i]))

\* C11 happens: 20, -1, -1, 23 was written as 20, 21, 22, 23
C11_Witness ==
    /\ JustWrote
    /\ impl = "extractor"
    /\ WantInterpolate(WrittenStructure)
    /\ HasCol(WrittenTable, "temperature")
    /\ HasCol(combined_df, "temperature")
    /\ Height(WrittenTable) = Height(combined_df)
    /\ \E i \in 1..(Height(WrittenTable) - 3) :
          /\ [j \in 1..4 |-> Column(combined_df, "temperature")[i + j - 1]]
                 = <<F64(2000), F64(-100), F64(-100), F64(2300)>>
          /\ [j \in 1..4 |-> Column(WrittenTable, "temperature")[i + j - 1]]
                 = <<F64(2000), F64(2100), F64(2200), F64(2300)>>

\* the final_columns of the combination just written, and those of them that
\* are columns of its MergedTable
WrittenFinalColumns == Get(WrittenStructure, "final_columns", <<>>)
ExistingFinalColumns == FilterSeq(WrittenFinalColumns, LAMBDA c : HasCol(combined_df, c))

\* C12: when final_columns is not empty the columns of the output are the
\* final_columns entries that exist in the merged table, in final_columns
\* order; when none of them exists every column of the merged table is kept
\* (and the output is written all the same)
C12_FinalColumnsProjection ==
    (JustWrote /\ WrittenFinalColumns # <<>>) =>
        IF ExistingFinalColumns # <<>>
        THEN WrittenTable.cols = ExistingFinalColumns
        ELSE WrittenTable.cols = combined_df.cols

\* C12 happens: one of the final_columns does not exist, the others were
\* written in final_columns order, which is not the order of the merged table
C12_Witness ==
    /\ JustWrote
    /\ WrittenFinalColumns # <<>>
    /\ ExistingFinalColumns # <<>>
    /\ ExistingFinalColumns # WrittenFinalColumns
    /\ WrittenTable.cols = ExistingFinalColumns
    /\ \E i, j \in 1..Len(combined_df.cols) :
          /\ i < j
          /\ HasCol(WrittenTable, combined_df.cols[i])
          /\ HasCol(WrittenTable, combined_df.cols[j])
          /\ ColIdx(WrittenTable, combined_df.cols[j]) < ColIdx(WrittenTable, combined_df.cols[i])

\* the other case of C12: no final column exists and the output was written
\* with every column of the merged table
C12_NoneExistKeepsAll ==
    /\ JustWrote
    /\ WrittenFinalColumns # <<>>
    /\ ExistingFinalColumns = <<>>
    /\ WrittenTable.cols = combined_df.cols

\* the path the output of a combination is expected at: its output_file, or
\* <combo_name>.csv when it has none
ExpectedPath(combo) == Get(combo.cfg, "output_file", combo.name \o ".csv")

\* C13 as stated: the output of each combination is written to its
\* output_file, or to <combo_name>.csv when it has none, so that combinations
\* of different names and without output_file write to different paths
C13_DefaultPathIsComboName ==
    /\ \A c \in 1..Len(combination_config) :
           Written(c) => ExpectedPath(combination_config[c]) \in DOMAIN outputs
    /\ \A c, d \in 1..Len(combination_config) :
           (/\ c # d
            /\ Written(c) /\ Written(d)
            /\ "output_file" \notin DOMAIN combination_config[c].cfg
            /\ "output_file" \notin DOMAIN combination_config[d].cfg)
           => OutputPath(impl, combination_config[c]) # OutputPath(impl, combination_config[d])

\* the metrics of the raw names of the dump and of the listings
Metrics == {Tail(NSleep), Tail(NExercise), Tail(NHeartRate), Tail(NTemp), Tail(NSteps)}

\* name is <prefix>health.<metric>.<digits>.csv or <prefix>health.<metric><digits>.csv
MetricForm(name, metric) ==
    Let(Find(name, Health), LAMBDA h :
        /\ h # 0
        /\ \E sep \in {<<>>, <<".">>} : \E n \in 1..(Len(name) - Len(DotCsv)) :
              \E digits \in {SubSeq(name, Len(name) - Len(DotCsv) - n + 1,
                                    Len(name) - Len(DotCsv))} :
                  /\ \A i \in 1..n : digits[i] \in Digits
                  /\ name = SubSeq(name, 1, h + 5) \o <<".">> \o metric \o sep \o digits
                            \o DotCsv)

\* C14: once the names of the listing are cleaned, the cleaned name of every
\* file named <prefix>health.<metric>.<digits>.csv or
\* <prefix>health.<metric><digits>.csv is exactly <metric>, with no leading
\* and no trailing separator.
C14_CleanReturnsMetric ==
    pc = "catalog" =>
        \A i \in DOMAIN cleaned_names : \A metric \in Metrics :
            MetricForm(PathName(csv_paths[i]), metric) => cleaned_names[i] = metric

\* what the code returns for those names: the metric behind the "." that
\* followed "health"
C14_CleanKeepsLeadingDot ==
    pc = "catalog" =>
        \A i \in DOMAIN cleaned_names : \A metric \in Metrics :
            MetricForm(PathName(csv_paths[i]), metric)
                => cleaned_names[i] = <<".">> \o metric

\* a listing with the two names of the claim has been cleaned
C14_BothFormsCleaned ==
    /\ pc = "catalog"
    /\ \E i, j \in DOMAIN cleaned_names :
          /\ PathName(csv_paths[i]) = RawSleep2023
          /\ MetricForm(RawSleep2023, Tail(NSleep))
          /\ PathName(csv_paths[j]) = RawExercise
          /\ MetricForm(RawExercise, Tail(NExercise))

\* the data rows of a table that are not entirely null
NonNullRows(T) == Cardinality({i \in 1..Height(T) : ~AllNullRow(T.rows[i])})

\* the files the empty-file filter was asked about: it is on, and the ignore
\* filter did not take the file first
AskedHasData(i) == options.filter_empty /\ catalog_log[i] # "filtered_ignored"

\* C15: hasData never raises, and it is true exactly when the file parses and
\* more than minRows of its data rows are not entirely null: once the catalog
\* is built, every file the empty-file filter was asked about is logged as
\* filtered_empty exactly when it does not parse or has at most MinRows such
\* rows, and the run is not ended by the catalog.
C15_HasDataIffEnoughRows ==
    ~categories.none =>
        /\ Len(catalog_log) = Len(csv_paths)
        /\ \A i \in 1..Len(csv_paths) :
               AskedHasData(i) =>
                   ((catalog_log[i] # "filtered_empty")
                    <=> (/\ ReadCsv(csv_paths[i]).load # "error"
                         /\ NonNullRows(ReadCsv(csv_paths[i]).table) > MinRows))
        /\ (pc = "exit" => exit_status = "0")

\* the catalog of the full dump is built with the empty-file filter on: the
\* file of 15 rows has data, and the file of 5 rows, the file of exactly
\* MinRows rows that are not entirely null, and the file that does not parse
\* have none
C15_Witness ==
    /\ ~categories.none
    /\ csv_paths = FullListing
    /\ \A i \in 1..4 : AskedHasData(i)
    /\ NonNullRows(ReadCsv(csv_paths[1]).table) = 15 /\ catalog_log[1] # "filtered_empty"
    /\ NonNullRows(ReadCsv(csv_paths[2]).table) = 5 /\ catalog_log[2] = "filtered_empty"
    /\ NonNullRows(ReadCsv(csv_paths[3]).table) = MinRows /\ catalog_log[3] = "filtered_empty"
    /\ ReadCsv(csv_paths[4]).load = "error" /\ catalog_log[4] = "filtered_empty"

\* the cleaned names a CategoryTree holds: the files of its categories, and
\* <category>.<subcategory> for the subcategories
CatalogNames(tree) ==
    UNION {Range(tree[k].files)
           \cup {tree[k].category \o <<".">> \o tree[k].subcategories[j] :
                    j \in 1..Len(tree[k].subcategories)} : k \in 1..Len(tree)}

\* csv_filtering.enabled_csvs at the top level of the configuration file
TopLevelEnabledCsvs == Range(Get(options.csv_filtering, "enabled_csvs", <<>>))

\* C16: with config filtering enabled, a present and non-empty top-level
\* csv_filtering.enabled_csvs leaves only its members in the catalog, and an
\* absent or empty one lets the config filter remove no file
\* (src/samsung_health_extractor.py).
C16_TopLevelEnabledCsvsFilter ==
    (impl = "extractor" /\ ~categories.none /\ options.filter_config) =>
        /\ TopLevelEnabledCsvs # {} =>
               CatalogNames(categories.tree) \subseteq TopLevelEnabledCsvs
        /\ TopLevelEnabledCsvs = {} =>
               \A i \in 1..Len(catalog_log) : catalog_log[i] # "filtered_not_in_config"

\* what the code filters by: the enabled_csvs of an entry "csv_filtering"
\* among the data_combinations
C16_NestedEnabledCsvsFilter ==
    (impl = "extractor" /\ ~categories.none /\ options.filter_config) =>
        /\ EnabledCsvs(options, combination_config) # {} =>
               CatalogNames(categories.tree) \subseteq EnabledCsvs(options, combination_config)
        /\ EnabledCsvs(options, combination_config) = {} =>
               \A i \in 1..Len(catalog_log) : catalog_log[i] # "filtered_not_in_config"

\* the cleaned names category k of the tree holds
CategoryNames(tree, k) == CatalogNames(<<tree[k]>>)

RECURSIVE TotalFiles(_, _)
\* total_files: the sum of len(subcategories) + len(files) over the first k
\* categories
TotalFiles(tree, k) ==
    IF k = 0 THEN 0
    ELSE TotalFiles(tree, k - 1) + Len(tree[k].subcategories) + Len(tree[k].files)

\* the files that survived all active filters
Survivors == {i \in 1..Len(catalog_log) : catalog_log[i] = "kept"}

\* C17: once the CategoryTree is built, every surviving cleaned name appears
\* in exactly one category, and the sum over the categories of len(files) +
\* len(subcategories) is the number of files that survived all active
\* filters, also when two files clean to the same name.
C17_TreeCountsSurvivors ==
    ~categories.none =>
        /\ \A i \in Survivors :
               Cardinality({k \in 1..Len(categories.tree) :
                               cleaned_names[i] \in CategoryNames(categories.tree, k)}) = 1
        /\ TotalFiles(categories.tree, Len(categories.tree)) = Cardinality(Survivors)

\* the part that holds: every surviving cleaned name is in exactly one category
C17_OneCategoryPerName ==
    ~categories.none =>
        \A i \in Survivors :
            Cardinality({k \in 1..Len(categories.tree) :
                            cleaned_names[i] \in CategoryNames(categories.tree, k)}) = 1

C18_FailuresExitZero ==
    /\ pc = "exit"
    /\ exit_status = "0"
    /\ \E c \in 1..Len(combination_config) : Logged(c, "combination_processing_error")
    /\ \E c \in 1..Len(combination_config) : Logged(c, "required_source_not_found")

\* the source loop has just joined a source into the MergedTable
AfterJoin ==
    /\ pc \in {"source", "output"}
    /\ log # <<>>
    /\ Last(log).msg = "merged"
    /\ Last(log).c = ci

\* the sources of the combination the loop has been through
SourcesSoFar == {Sources[k] : k \in 1..Last(log).s}

\* every key of T is a date, or every key of T is a full timestamp
SameGranularity(T, key) ==
    \E g \in {"date", "dt"} : \A c \in KeySet(T, key) : c.t \in {g, "null"}

\* columns of T that are a second key: the key with a join suffix, or the own
\* merge key of a source under its original name
SecondKeyColumns(T, key, sources) ==
    Range(T.cols) \cap (({key \o "_right"} \cup {SourceMergeKey(x) : x \in sources}) \ {key})

\* C19: after every join step the MergedTable has exactly one merge-key
\* column, named as the combination's key, whose values are all dates or all
\* full timestamps, and no suffixed or source-specific second key column
\* (src/samsung_health_extractor.py).
C19_OneKeyOneGranularity ==
    (impl = "extractor" /\ AfterJoin) =>
        /\ Cardinality({j \in 1..Len(combined_df.cols) : combined_df.cols[j] = merge_key}) = 1
        /\ SameGranularity(combined_df, merge_key)
        /\ SecondKeyColumns(combined_df, merge_key, SourcesSoFar) = {}

\* the part about the columns alone: one key column and no second one
C19_OneKeyColumn ==
    (impl = "extractor" /\ AfterJoin) =>
        /\ Cardinality({j \in 1..Len(combined_df.cols) : combined_df.cols[j] = merge_key}) = 1
        /\ SecondKeyColumns(combined_df, merge_key, SourcesSoFar) = {}

\* the granularity when the conversion of the key raised for no source
C19_GranularityWhenConverted ==
    (/\ impl = "extractor"
     /\ AfterJoin
     /\ Dtype(combined_df, merge_key) \in {"date", "dt"}) =>
        SameGranularity(combined_df, merge_key)

\* the file of the source the loop is at (0: there is none)
CurrentFile == FindCsv(Get(Sources[si], "csv_name", <<>>))

\* C20: the merge-key column of every source is kept as full timestamps if
\* and only if the key of the combination, fixed by its first source, is
\* literally "datetime", and holds dates otherwise, whatever the source's own
\* merge_key_rename: whenever the loop is at a source whose file loads and
\* whose key column is converted, the column holds timestamps exactly when
\* the combination key is "datetime" (src/samsung_health_extractor.py).
C20_GranularityFollowsCombinationKey ==
    (/\ impl = "extractor"
     /\ pc = "source"
     /\ CurrentFile # 0) =>
        \A file \in {ReadCsv(csv_paths[CurrentFile])} :
            file.load = "ok" =>
                \A p \in {Prepare(impl, Sources[si], file.table, merge_key)} :
                    (/\ p.kind = "ok"
                     /\ HasCol(p.df, p.merge_key)
                     /\ Dtype(p.df, p.merge_key) \in {"date", "dt"}) =>
                        (Dtype(p.df, p.merge_key) = "dt" <=> p.merge_key = "datetime")

\* what the code decides by: the source's own merge_key_rename
C20_GranularityFollowsOwnRename ==
    (/\ impl = "extractor"
     /\ pc = "source"
     /\ CurrentFile # 0) =>
        \A file \in {ReadCsv(csv_paths[CurrentFile])} :
            file.load = "ok" =>
                \A p \in {Prepare(impl, Sources[si], file.table, merge_key)} :
                    (/\ p.kind = "ok"
                     /\ HasCol(p.df, p.merge_key)
                     /\ Dtype(p.df, p.merge_key) \in {"date", "dt"}) =>
                        (Dtype(p.df, p.merge_key) = "dt"
                         <=> MergeKeyRename(Sources[si]) = "datetime")

\* a combination keyed "datetime" has joined two sources on full timestamps
C20_DatetimeJoined ==
    /\ impl = "extractor"
    /\ AfterJoin
    /\ merge_key = "datetime"
    /\ Dtype(combined_df, merge_key) = "dt"

(***************************************************************************)
(* The key of a combination.                                               *)
(***************************************************************************)
\* the file of the source the loop is at was found and read
CurrentFileRead == CurrentFile # 0 /\ ReadCsv(csv_paths[CurrentFile]).load = "ok"

\* C21: within one combination the standardized merge key is set once, by the
\* first source whose table is loaded, to that source's merge_key_rename
\* (merge_key when there is none); no later step of the combination changes
\* it, and every join of the combination is made on it.
C21_KeySetOnceAndJoinedOn ==
    [][/\ (pc = "source" /\ log' # log) =>
              /\ merge_key # None => merge_key' = merge_key
              /\ merge_key = None =>
                     merge_key' = IF CurrentFileRead THEN MergeKeyRename(Sources[si]) ELSE None
              /\ Last(log').msg = "merged" =>
                     /\ merge_key # None
                     /\ combined_df' = OuterJoin(Lib(impl),
                                                 Renormalize(impl, combined_df, merge_key),
                                                 PreparedSource, merge_key)
       /\ pc = "output" => merge_key' = merge_key]_vars

\* C21 happens: the first source of the combination gave no table, a later
\* one set the key, under another name than its own merge key, and the next
\* one was joined on that key
C21_Witness ==
    /\ AfterJoin
    /\ \E i \in 1..Len(log) :
          /\ log[i].c = ci
          /\ log[i].msg = "base"
          /\ log[i].s > 1
          /\ merge_key = MergeKeyRename(Sources[log[i].s])
          /\ merge_key # SourceMergeKey(Sources[log[i].s])

(***************************************************************************)
(* The order of the sources.                                               *)
(***************************************************************************)
\* the sources of the current combination as the configuration file has them
FileSources == Get(config_file[ci].cfg, "sources", <<>>)

\* the sources of ss that have priority p, in the order of ss
WithPriority(ss, p) == FilterSeq(ss, LAMBDA x : PriorityOf(x) = p)

\* the steps of the source loop of the current combination, in log order
SourceEvents == FilterSeq(log, LAMBDA e : e.c = ci /\ e.s > 0)

\* C22: the sources of a combination are processed in ascending order of
\* priority, and sources of equal priority in the order the configuration
\* file has them: the k-th source processed is the k-th of the order that
\* lists the priorities ascending and, for each priority, the sources that
\* have it as the file does.
C22_ProcessedInStablePriorityOrder ==
    (pc \in {"source", "output"}) =>
        /\ \A k \in 1..Len(SourceEvents) : SourceEvents[k].s = k
        /\ Len(Sources) = Len(FileSources)
        /\ \A i, j \in 1..Len(Sources) :
              i < j => PriorityOf(Sources[i]) <= PriorityOf(Sources[j])
        /\ \A p \in {PriorityOf(x) : x \in Range(FileSources)} :
              WithPriority(Sources, p) = WithPriority(FileSources, p)

\* C22 happens: every source of a combination was processed whose file lists
\* a source before one of lower priority, and two different sources of equal
\* priority
C22_Witness ==
    /\ pc = "output"
    /\ Len(SourceEvents) = Len(Sources)
    /\ Sources # FileSources
    /\ \E i, j \in 1..Len(FileSources) :
          /\ i < j
          /\ FileSources[i] # FileSources[j]
          /\ PriorityOf(FileSources[i]) = PriorityOf(FileSources[j])

(***************************************************************************)
(* Resolution of a source against the catalog.                             *)
(***************************************************************************)
\* the first file of the listing with the cleaned name csv_name that the
\* catalog kept (0: there is none)
CatalogFile(csv_name) ==
    Let({i \in DOMAIN cleaned_names : cleaned_names[i] = csv_name /\ catalog_log[i] = "kept"},
        LAMBDA hits : IF hits = {} THEN 0 ELSE CHOOSE i \in hits : \A j \in hits : i <= j)

NotFoundMessages == {"required_source_not_found", "optional_source_not_found"}

\* C23: a source is resolved through the catalog: when the catalog kept no
\* file with the csv_name of a source (its file was ignored, empty or not in
\* the enabled set), the step of that source ends as not found, and the
\* source is neither loaded nor merged.
C23_FilteredSourceIsNotFound ==
    \A i \in 1..Len(log) :
        (log[i].s > 0 /\ CatalogFile(Get(SourceOf(log[i]), "csv_name", <<>>)) = 0)
        => log[i].msg \in NotFoundMessages

\* what the code resolves against: the whole listing of the dump directory
C23_ResolvedAgainstListing ==
    \A i \in 1..Len(log) :
        log[i].s > 0 =>
            (log[i].msg \in NotFoundMessages
             <=> FindCsv(Get(SourceOf(log[i]), "csv_name", <<>>)) = 0)

(***************************************************************************)
(* The configuration object after the combinations were processed.         *)
(***************************************************************************)
\* process_data_combinations has returned
Returned == pc \in {"stats", "exit"} /\ env = "ok" /\ combination_config # <<>>

SourcesOf(config, c) == Get(config[c].cfg, "sources", <<>>)

\* how many times x occurs in ss
Occurrences(ss, x) == Cardinality({i \in 1..Len(ss) : ss[i] = x})

\* C24: processing the combinations leaves every CombinationSpec unchanged:
\* once process_data_combinations has returned, the sources of every
\* combination of the configuration object are the same elements in the same
\* order as before the call.
C24_SourcesUnchangedOnReturn ==
    Returned =>
        \A c \in 1..Len(combination_config) :
            SourcesOf(combination_config, c) = SourcesOf(config_file, c)

\* what is left unchanged: the elements, not their order
C24_SameSourcesInSomeOrder ==
    /\ Len(combination_config) = Len(config_file)
    /\ \A c \in 1..Len(combination_config) :
          /\ combination_config[c].name = config_file[c].name
          /\ Len(SourcesOf(combination_config, c)) = Len(SourcesOf(config_file, c))
          /\ \A x \in Range(SourcesOf(config_file, c)) :
                Occurrences(SourcesOf(combination_config, c), x)
                = Occurrences(SourcesOf(config_file, c), x)

(***************************************************************************)
(* The order of source steps and output steps.                             *)
(***************************************************************************)
\* the output pipeline ran: the file was written, or the pipeline raised
PipelineMessages == {"output_created", "combination_processing_error"}

\* the output of a combination was written or abandoned
OutcomeMessages == PipelineMessages \cup {"debug_no_data_to_output"}

\* C25: for every combination the output pipeline runs at most once, after
\* the last source step of the combination and before the first source step
\* of the next one: the diagnostics of the combinations follow one another,
\* nothing of a combination comes after its output was written or abandoned,
\* and between a source step and anything of a later combination the output
\* of the former was written or abandoned.
C25_OutputOnceAfterSourcesBeforeNext ==
    \A i, j \in 1..Len(log) :
        i < j =>
            /\ log[i].c <= log[j].c
            /\ log[i].c = log[j].c => log[i].msg \notin OutcomeMessages
            /\ (log[i].c < log[j].c /\ log[i].s > 0) =>
                   \E k \in (i + 1)..(j - 1) :
                       log[k].c = log[i].c /\ log[k].msg \in OutcomeMessages

\* C25 happens: two combinations were processed, the first with several
\* source steps, and the output of each was written
C25_Witness ==
    /\ pc = "stats"
    /\ Written(1)
    /\ Written(2)
    /\ \E i \in 1..Len(log) : log[i].c = 1 /\ log[i].s > 1
    /\ \E i \in 1..Len(log) : log[i].c = 2 /\ log[i].s > 0

(***************************************************************************)
(* Key values that are no timestamps.                                      *)
(***************************************************************************)
\* text that cannot be parsed as a timestamp
Unparseable(c) == c.t = "xstr"

\* the loop is at a source whose file is read, whose own merge key becomes
\* the key of the combination, and whose key column holds text that is no
\* timestamp
AtUnparseableKey ==
    /\ pc = "source"
    /\ CurrentFileRead
    /\ HasCol(ReadCsv(csv_paths[CurrentFile]).table, SourceMergeKey(Sources[si]))
    /\ NextMergeKey(Sources[si], merge_key) = MergeKeyRename(Sources[si])
    /\ ~DuplicatesKey(Sources[si])
    /\ \E c \in Range(Column(ReadCsv(csv_paths[CurrentFile]).table,
                             SourceMergeKey(Sources[si]))) : Unparseable(c)

\* the key column of the file as read, and as prepared for the join
RawKeyColumn == Column(ReadCsv(csv_paths[CurrentFile]).table, SourceMergeKey(Sources[si]))
PreparedKeyColumn == Column(PreparedSource, MergeKeyRename(Sources[si]))

\* the unparseable values are null and the other values are converted
NullWhereUnparseable(raw, converted) ==
    /\ Len(converted) = Len(raw)
    /\ \A i \in 1..Len(raw) :
          IF Unparseable(raw[i]) \/ IsNull(raw[i])
          THEN IsNull(converted[i])
          ELSE converted[i].t \in {"date", "dt"}

\* the source is prepared without an error and, when it is the first to
\* load, becomes the base table
NotSkippedNorAborting ==
    /\ Prepare(impl, Sources[si], ReadCsv(csv_paths[CurrentFile]).table, merge_key).kind = "ok"
    /\ combined_df.none =>
           ProcessSource(impl, Sources[si], combined_df, merge_key).msg = "base"

\* C26: when the merge-key column of a source contains a value that cannot
\* be parsed as a timestamp, that value is null in the normalized key column,
\* every parseable value of the column is still converted, and the source is
\* neither skipped nor aborts the combination.
C26_UnparseableKeyBecomesNull ==
    AtUnparseableKey =>
        /\ NotSkippedNorAborting
        /\ HasCol(PreparedSource, MergeKeyRename(Sources[si]))
        /\ NullWhereUnparseable(RawKeyColumn, PreparedKeyColumn)

\* the claim for src/reedit.py alone, where it holds
C26_PandasCoercesToNull ==
    (impl = "reedit" /\ AtUnparseableKey) =>
        /\ NotSkippedNorAborting
        /\ HasCol(PreparedSource, MergeKeyRename(Sources[si]))
        /\ NullWhereUnparseable(RawKeyColumn, PreparedKeyColumn)

\* src/samsung_health_extractor.py: the source is not skipped, and its key
\* column is left as it was read, the parseable values too
C26_PolarsLeavesColumnAsRead ==
    (impl = "extractor" /\ AtUnparseableKey) =>
        /\ NotSkippedNorAborting
        /\ HasCol(PreparedSource, MergeKeyRename(Sources[si]))
        /\ PreparedKeyColumn = RawKeyColumn

(***************************************************************************)
(* Classification of a cleaned name.                                       *)
(***************************************************************************)
\* the number of dots of a name
DotCount(s) == Cardinality({i \in 1..Len(s) : s[i] = "."})

\* the name is a direct file of the category named category
FiledUnder(tree, category, name) ==
    \E k \in 1..Len(tree) : tree[k].category = category /\ name \in Range(tree[k].files)

\* the name is the name of a category of one dot, a dot, and one of the
\* subcategories of that category
SplitAtSecondDot(tree, name) ==
    \E k \in 1..Len(tree) :
        /\ DotCount(tree[k].category) = 1
        /\ \E sub \in Range(tree[k].subcategories) :
              name = tree[k].category \o <<".">> \o sub

\* C27: a cleaned name with zero or one dot is classified under the category
\* that is the whole cleaned name, with no subcategory; a name with two or
\* more dots under the category of its first two dot-delimited segments,
\* with the remaining segments joined by "." as its subcategory.
C27_ClassifiedByDots ==
    ~categories.none =>
        \A i \in Survivors :
            IF DotCount(cleaned_names[i]) <= 1
            THEN FiledUnder(categories.tree, cleaned_names[i], cleaned_names[i])
            ELSE SplitAtSecondDot(categories.tree, cleaned_names[i])

\* the part of a name before its first dot
BeforeFirstDot(s) == SubSeq(s, 1, (CHOOSE i \in 1..Len(s) : s[i] = "." /\ \A j \in 1..(i - 1) : s[j] # ".") - 1)

\* the rule for names without a dot and for names of two or more dots
C27_NoDotAndSeveralDots ==
    ~categories.none =>
        \A i \in Survivors :
            /\ DotCount(cleaned_names[i]) = 0 =>
                   FiledUnder(categories.tree, cleaned_names[i], cleaned_names[i])
            /\ DotCount(cleaned_names[i]) >= 2 =>
                   SplitAtSecondDot(categories.tree, cleaned_names[i])

\* what the code does with a name of one dot: the category is the part
\* before the dot
C27_OneDotUnderFirstSegment ==
    ~categories.none =>
        \A i \in Survivors :
            DotCount(cleaned_names[i]) = 1 =>
                /\ FiledUnder(categories.tree, BeforeFirstDot(cleaned_names[i]),
                              cleaned_names[i])
                /\ ~FiledUnder(categories.tree, cleaned_names[i], cleaned_names[i])

\* names of all three kinds were classified
C27_AllKindsClassified ==
    /\ ~categories.none
    /\ \A n \in 0..2 : \E i \in Survivors : DotCount(cleaned_names[i]) = n

(***************************************************************************)
(* The order of the rows of an output.                                     *)
(***************************************************************************)
\* primary_sort of the written combination (default: its merge key), and
\* whether the sort is descending
WrittenSortBy == Get(WrittenStructure, "primary_sort", merge_key)
WrittenDescending == ~Get(WrittenStructure, "sort_ascending", TRUE)

\* the output structure with the sort switched off
WithoutSort(oc) ==
    [k \in (DOMAIN oc) \cup {"primary_sort"} |-> IF k = "primary_sort" THEN "" ELSE oc[k]]

\* cells x and y, x in the row above, are in order
InOrder(x, y, descending) ==
    IF descending THEN x.v >= y.v ELSE x.v <= y.v

\* the cells of a column are in order, the nulls first
CellsOrderedNullsFirst(cells, descending) ==
    \A a, b \in 1..Len(cells) :
        a < b =>
            /\ ~(IsNull(cells[b]) /\ ~IsNull(cells[a]))
            /\ (~IsNull(cells[a]) /\ ~IsNull(cells[b])) =>
                   InOrder(cells[a], cells[b], descending)

\* the same rows, each as many times
SameRows(rows1, rows2) ==
    /\ Len(rows1) = Len(rows2)
    /\ \A r \in Range(rows1) : Occurrences(rows1, r) = Occurrences(rows2, r)

\* the merged table of the written combination with its rows sorted
WrittenSorted == SortBy("polars", combined_df, WrittenSortBy, WrittenDescending)

\* of two values of the primary_sort column of the output, the one in the
\* row above is not the greater one (ascending) or not the smaller one
\* (descending)
WrittenValuesOrdered ==
    \A a, b \in 1..Height(WrittenTable) :
        \A x \in {Column(WrittenTable, WrittenSortBy)[a]} :
        \A y \in {Column(WrittenTable, WrittenSortBy)[b]} :
            (a < b /\ ~IsNull(x) /\ ~IsNull(y) /\ x.t = y.t) =>
                InOrder(x, y, WrittenDescending)

\* C28 as stated: the rows of every written output are ordered by the
\* primary_sort column (default: the merge key of the combination) in the
\* direction sort_ascending gives (src/samsung_health_extractor.py).
C28_WrittenRowsOrdered ==
    (/\ impl = "extractor"
     /\ JustWrote
     /\ HasCol(combined_df, WrittenSortBy)
     /\ HasCol(WrittenTable, WrittenSortBy)) =>
        WrittenValuesOrdered

\* C28 amended: the rows of every written output stand in the order of the
\* merged table sorted by the primary_sort column on the values that column
\* has in the merged table, nulls first, in the direction sort_ascending
\* gives; the later steps of the pipeline rewrite cells and leave the rows
\* where they are.  When the column is absent from the merged table the rows
\* keep their merge order (src/samsung_health_extractor.py).
C28_RowsInSortedMergeOrder ==
    (impl = "extractor" /\ JustWrote) =>
        IF HasCol(combined_df, WrittenSortBy)
        THEN /\ CellsOrderedNullsFirst(Column(WrittenSorted, WrittenSortBy), WrittenDescending)
             /\ SameRows(WrittenSorted.rows, combined_df.rows)
             /\ WrittenTable
                = PipelineExtractor(WrittenSorted, merge_key, WithoutSort(WrittenStructure))
        ELSE WrittenTable
             = PipelineExtractor(combined_df, merge_key, WithoutSort(WrittenStructure))

\* the written values are in order when nothing fills the nulls
C28_OrderedUnlessFilled ==
    (/\ impl = "extractor"
     /\ JustWrote
     /\ ~Truthy(FillValue(WrittenStructure))
     /\ HasCol(combined_df, WrittenSortBy)
     /\ HasCol(WrittenTable, WrittenSortBy)) =>
        WrittenValuesOrdered

\* C28 happens: an output was written whose merged table was not in
\* descending order of the primary_sort column, sorted descending
C28_Witness ==
    /\ impl = "extractor"
    /\ JustWrote
    /\ HasCol(combined_df, WrittenSortBy)
    /\ WrittenSortBy # merge_key
    /\ WrittenDescending
    /\ ~CellsOrderedNullsFirst(Column(combined_df, WrittenSortBy), WrittenDescending)
    /\ HasCol(WrittenTable, WrittenSortBy)
    /\ Height(WrittenTable) >= 3

\* an output was written whose primary_sort column is absent
C28_AbsentColumnWritten ==
    /\ impl = "extractor"
    /\ JustWrote
    /\ ~HasCol(combined_df, WrittenSortBy)
    /\ Height(WrittenTable) >= 2

(***************************************************************************)
(* The sexual_activity marker of an output.                                *)
(***************************************************************************)
\* the merged table of the written combination in the order of the output
WrittenOrdered ==
    IF HasCol(combined_df, WrittenSortBy) THEN WrittenSorted ELSE combined_df

\* the output before its empty rows are removed; its rows are those of
\* WrittenOrdered, one for one
WrittenWithEmptyRows ==
    MarkedExtractor(WrittenOrdered, merge_key, WithoutSort(WrittenStructure))

\* in every row that is written, the marker is 1 exactly when the merged row
\* had a sexual_activity value
MarkerIffHadValue ==
    /\ WrittenTable = DropAllNullRows(WrittenWithEmptyRows)
    /\ Height(WrittenWithEmptyRows) = Height(WrittenOrdered)
    /\ \A i \in 1..Height(WrittenOrdered) :
          ~AllNullRow(WrittenWithEmptyRows.rows[i]) =>
              (Column(WrittenWithEmptyRows, "sexual_activity")[i] = I64(1)
               <=> ~IsNull(Column(WrittenOrdered, "sexual_activity")[i]))

\* an output with a sexual_activity column was written
WroteMarker ==
    /\ impl = "extractor"
    /\ JustWrote
    /\ HasCol(combined_df, "sexual_activity")
    /\ HasCol(WrittenTable, "sexual_activity")

\* C29: in every written output the sexual_activity value of a row is 1 if
\* and only if the merged row had a non-null sexual_activity value before
\* the output pipeline ran, whatever data_processing says, fill_missing_values
\* included (src/samsung_health_extractor.py).
C29_MarkerIffHadValue == WroteMarker => MarkerIffHadValue

\* the claim for the outputs that no number fills
C29_MarkerIffHadValueUnlessFilled ==
    (WroteMarker /\ FillValue(WrittenStructure).t \notin {"int", "flt"}) => MarkerIffHadValue

\* an output was written, without a fill, that has the marker in some rows
\* and not in others
C29_MarkerInSomeRows ==
    /\ WroteMarker
    /\ ~Truthy(FillValue(WrittenStructure))
    /\ \E i, j \in 1..Height(WrittenTable) :
          /\ Column(WrittenTable, "sexual_activity")[i] = I64(1)
          /\ IsNull(Column(WrittenTable, "sexual_activity")[j])

(***************************************************************************)
(* The key of a combination and its base table.                            *)
(***************************************************************************)
\* the steps of the current combination that set the base table
BaseSteps ==
    {i \in 1..Len(log) : log[i].c = ci /\ log[i].s > 0 /\ log[i].msg = "base"}

\* C30: in every combination the standardized merge key, used for the joins
\* and the output, is the merge_key_rename of the source that became the
\* base table (the first source that loaded), also when the file of an
\* earlier source was read and that source was then skipped for lacking its
\* columns.
C30_KeyIsThatOfBaseSource ==
    (pc \in {"source", "output"}) =>
        \A i \in BaseSteps : merge_key = MergeKeyRename(Sources[log[i].s])

\* the claim for the combinations in which no source was read and skipped
\* before the base table was set
C30_KeyIsThatOfBaseUnlessSkipped ==
    (pc \in {"source", "output"}) =>
        \A i \in BaseSteps :
            (\A j \in 1..(i - 1) :
                log[j].c = ci => log[j].msg \notin {"no_required_columns", "processing_error"})
            => merge_key = MergeKeyRename(Sources[log[i].s])

\* a base table was set after a source was read and skipped, and the key is
\* the one both sources name
C30_SkippedThenBaseSameKey ==
    /\ pc \in {"source", "output"}
    /\ \E i \in BaseSteps :
          /\ merge_key = MergeKeyRename(Sources[log[i].s])
          /\ \E j \in 1..(i - 1) : log[j].c = ci /\ log[j].msg = "no_required_columns"

====
